---- MODULE Spec2Model ----
(***************************************************************************)
(* blaziken: the upload part of the BackBlaze B2 client                    *)
(* (src/blaziken/api.py, utils.py, http.py, exceptions.py, constants.py).  *)
(*                                                                         *)
(* Sizes are counted in units of 512 KiB (ONE_MB is 2 units), which keeps  *)
(* FIVE_GB within 32-bit integers.  upload_parts_count divides with        *)
(* Python's float division and rounds up; for sizes below 2^53 bytes that  *)
(* is the exact integer ceiling, which is what Ceil computes.              *)
(***************************************************************************)
EXTENDS Integers, Sequences, FiniteSets, TLC

\* ------------------------------------------------------------- bounds
\* Largest number of parts of an upload that is explored.
MaxParts == 2
\* File sizes tried by the planner runs reach MaxPlanParts part sizes.
MaxPlanParts == 4
\* How far around a multiple of the part size the planner's sizes go.
PlanSlack == 2
\* Most files the listed bucket holds.
MaxFiles == 3

\* ---------------------------------------------------------- constants
ONE_MB == 2
ONE_GB == 1024 * ONE_MB
FIVE_MB == 5 * ONE_MB
TEN_MB == 10 * ONE_MB
HUNDRED_MB == 100 * ONE_MB
FIVE_GB == 5 * ONE_GB
\* "Maximum number of parts is 10000" (docstring of upload_parts_count).
MAX_PARTS == 10000

\* ------------------------------------------------------------- errors
NoError == [kind |-> "none", from |-> "none"]
Error(kind, from) == [kind |-> kind, from |-> from]

\* exceptions.py: the classes that derive from BlazeError.
BlazeErrors ==
    {"BlazeError", "RequestError", "ResponseError", "InternetError",
     "ObjectError", "BucketError", "B2KeyError", "FileError"}
IsBlazeError(kind) == kind \in BlazeErrors

\* ------------------------------------------------------------ planner
\* math.ceil(a / b) for a >= 0, b > 0.
Ceil(a, b) == (a + b - 1) \div b

upload_parts_count_no_check(size, part_size) ==
    [error |-> NoError, size |-> size,
     parts |-> Ceil(size, part_size), part_size |-> part_size]

upload_parts_count_floor(size, part_size) ==
    IF part_size < FIVE_MB \/ part_size > FIVE_GB
    THEN [error |-> Error("ValueError", "upload_parts_count"),
          size |-> 0, parts |-> 0, part_size |-> 0]
    ELSE [error |-> NoError, size |-> size,
          parts |-> size \div part_size, part_size |-> part_size]

\* utils.upload_parts_count, the size already resolved (an int, or the
\* st_size of the path): (size, parts, part_size) or ValueError.
upload_parts_count(size, part_size) ==
    IF part_size < FIVE_MB \/ part_size > FIVE_GB
    THEN [error |-> Error("ValueError", "upload_parts_count"),
          size |-> 0, parts |-> 0, part_size |-> 0]
    ELSE [error |-> NoError, size |-> size,
          parts |-> Ceil(size, part_size), part_size |-> part_size]

\* --------------------------------------------------------- the service
\* What the B2 service (or the network) answers to one HTTP request:
\* transport is "RequestException" when requests raises, status_code is
\* the HTTP status, is_json tells whether the body parses as JSON, status
\* is the body's 'status' key (0 when absent), fields tells whether the
\* body holds the keys the caller reads, val is the value of the key that
\* matters to the upload (fileId, contentSha1).
Reply(transport, status_code, is_json, status, fields, val) ==
    [transport |-> transport, status_code |-> status_code, is_json |-> is_json,
     status |-> status, fields |-> fields, val |-> val]

Down == Reply("RequestException", 0, FALSE, 0, FALSE, "")
HttpError == Reply("ok", 400, TRUE, 400, FALSE, "")
BadJson == Reply("ok", 200, FALSE, 0, FALSE, "")
B2Error == Reply("ok", 200, TRUE, 400, FALSE, "")
NoField == Reply("ok", 200, TRUE, 0, FALSE, "")
Ok(val) == Reply("ok", 200, TRUE, 0, TRUE, val)

FileIds == {"f1", "f2"}
Digests == {"sha_a", "sha_b"}

Failures == {Down, HttpError, BadJson, B2Error}
\* The answers tried for each endpoint.  finish and cancel responses are
\* not indexed by the upload code, so a body without keys is no case there.
StartReplies == Failures \cup {NoField} \cup {Ok(f) : f \in FileIds}
PartUrlReplies == Failures \cup {NoField, Ok("url")}
UploadPartReplies == Failures \cup {NoField} \cup {Ok(d) : d \in Digests}
FinishReplies == Failures \cup {Ok("file")}
CancelReplies == Failures \cup {Ok("cancelled")}
UploadUrlReplies == Failures \cup {NoField, Ok("url")}
UploadFileReplies == Failures \cup {Ok("file")}
\* authenticate: val is allowed.bucketId ("" when the key is unrestricted).
AuthReplies == Failures \cup {NoField} \cup {Ok(b) : b \in {"", "b1"}}

\* Opening or reading the local source.
IOOutcomes == {"ok", "OSError"}

\* --------------------------------------------------------------- http
\* A check that lets the status code 400 pass.
check_response_error_above(response, from) ==
    IF response.status_code > 400 THEN Error("RequestError", from) ELSE NoError

\* utils.check_response_error
check_response_error(response, from) ==
    IF response.status_code >= 400 THEN Error("RequestError", from) ELSE NoError

\* Http._do_request: the error it raises for a reply, or NoError.
do_request(reply, from) ==
    IF reply.transport = "RequestException"
    THEN Error("InternetError", from)
    ELSE check_response_error(reply, from)

\* utils.check_b2_errors
check_b2_errors(data, from) ==
    IF data.status >= 400 THEN Error("ResponseError", from) ELSE NoError

ensure_auth_skipped(token, from) == NoError

\* BackBlazeB2._ensure_auth
ensure_auth(token, from) ==
    IF token = "None" THEN Error("RequestError", from) ELSE NoError

\* The part every endpoint method shares after _ensure_auth passed:
\* post the request, json_loads the body, check_b2_errors.
api_result(reply, from) ==
    IF do_request(reply, from) # NoError THEN do_request(reply, from)
    ELSE IF ~reply.is_json THEN Error("JSONDecodeError", from)
    ELSE check_b2_errors(reply, from)

\* result[key] by the caller of an endpoint method.
index_result(reply, from) ==
    IF reply.fields THEN NoError ELSE Error("KeyError", from)

\* A request that was sent, as the upload's log keeps it.
Request(op, bucket, file_id, part_number, offset, length, parts_sha1, reply) ==
    [op |-> op, bucket |-> bucket, file_id |-> file_id,
     part_number |-> part_number, offset |-> offset, length |-> length,
     parts_sha1 |-> parts_sha1, reply |-> reply]

\* -------------------------------------------------------------- state
VARIABLES
    auth_token,   \* BackBlazeB2.auth_token: "None" or the token
    part_size,    \* BackBlazeB2._part_size
    bucket_id,    \* BackBlazeB2._bucket_id ("" for None)
    upload_url,   \* BackBlazeB2.upload_url ("" for None)
    upload_token, \* BackBlazeB2.upload_token ("" for None)
    gen,          \* the upload generators: slot -> generator record
    plan_in,      \* planner runs: the (size, part_size) given
    plan_out,     \* planner runs: what upload_parts_count returned
    limited_account, \* BackBlazeB2._limited_account
    stored,       \* the service: the names of the files the bucket b2 holds
    next_files,   \* Bucket._next_files (0 for None)
    next_params,  \* Bucket._next_params: <<>> or <<prefix, delimiter, max_files>>
    list_log,     \* the calls of list_files the Bucket made, from the caller's
                  \* last call of files() or file() on
    lister,       \* the all_files or more_files generator of the Bucket
    ret,          \* what Bucket.file or B2Objects.bucket returned, if the caller's
                  \* last step was a call of it
    util_in,      \* runs of the utils functions: the function and its arguments
    util_out,     \* runs of the utils functions: what it returned or raised
    api_url,      \* BackBlazeB2.api_url ("" for None)
    download_url, \* BackBlazeB2.download_url ("" for None)
    bucket_name,  \* BackBlazeB2._bucket_name ("" for None)
    _prefix       \* BackBlazeB2._prefix, a sequence of characters

objects == <<stored, next_files, next_params, list_log, lister, ret>>
util == <<util_in, util_out>>
account == <<api_url, download_url, bucket_name, _prefix>>
vars == <<auth_token, part_size, bucket_id, upload_url, upload_token, gen,
          plan_in, plan_out, limited_account, objects, util, account>>
client == <<auth_token, part_size, bucket_id, upload_url, upload_token>>

Gens == {"g1", "g2"}

\* A slot no upload call has used yet.
FreeGen ==
    [kind |-> "none",        \* "single": _upload_file_gen, "large": upload_large_file
     pc |-> "free",          \* "new", "part" (at line 776), "final" (at 777 or 238), "done"
     entry |-> "none",       \* the method the caller called
     is_path |-> FALSE,      \* file_or_path is a str or Path
     size |-> 0,             \* length of the source's content
     file_size |-> 0,        \* the file_size argument
     bucket |-> "",          \* the bucket_id argument of the generator function
     data |-> 0,             \* _upload_file_gen: len(data) of its argument
     plan_arg |-> 0,         \* part size last given to upload_parts_count
     call_part_size |-> 0,   \* self.part_size when the caller called the method
     seeks |-> 0,            \* how often the source was repositioned (seek)
     parts_count |-> 0,
     parts_size |-> 0,
     file_id |-> "",
     i |-> 0,
     parts_sha1 |-> <<>>,
     handle |-> "none",      \* the handle line 766 opens: "none", "open", "closed"
     closes |-> 0,           \* how often line 783 closed it
     pos |-> 0,              \* read position of the source
     cause |-> NoError,      \* the error the except clause of line 778 caught
     error |-> NoError,      \* the exception the call or the last pull raised
     stopped |-> FALSE,      \* a pull ended with StopIteration
     late |-> FALSE,         \* the generator was pulled again after it had ended
     events |-> <<>>,        \* the tuples yielded
     calls |-> <<>>]         \* the HTTP requests sent

\* No Bucket generator was made yet.
FreeLister ==
    [kind |-> "none",        \* "all_files" or "more_files"
     pc |-> "free",          \* "new", "first" (238-239), "more" (227, 241-242), "done"
     args |-> <<>>,          \* all_files: <<prefix, delimiter, max_files, start_name>>
     page |-> <<>>,          \* all_files: the files of the current list not yet yielded
     out |-> <<>>,           \* what the generator yielded
     error |-> NoError,      \* the exception a pull raised
     disturbed |-> FALSE,    \* the caller listed the Bucket since its first request
     changed |-> FALSE]      \* the bucket's content changed since its first request

NoReturn == [op |-> "none", args |-> <<>>, value |-> <<>>, error |-> NoError]

\* The models and utils parts at rest: a Bucket just built (164-176), an
\* empty bucket on the service, no function run.
\* The fields authenticate writes, before the first authentication.
NoAccount ==
    /\ api_url = ""
    /\ download_url = ""
    /\ bucket_name = ""
    /\ _prefix = <<>>

\* The same after an authentication that named no bucket.
Signed ==
    /\ api_url = "api"
    /\ download_url = "api"
    /\ bucket_name = ""

\* The name prefixes a client holds: none, or the folder p (set by
\* set_prefix, or allowed.namePrefix of a restricted key).
FilePrefixes == {<<>>, <<"p">>}

NoObjects ==
    /\ stored = {}
    /\ next_files = 0
    /\ next_params = <<>>
    /\ list_log = <<>>
    /\ lister = FreeLister
    /\ ret = NoReturn
    /\ util_in = <<>>
    /\ util_out = NoReturn

SentTwice(s, req) == [s EXCEPT !.calls = Append(Append(@, req), req)]

Sent(s, req) == [s EXCEPT !.calls = Append(@, req)]
Raise(s, err) == [s EXCEPT !.pc = "done", !.error = err]
Yield(s, pc, response, part_number, total) ==
    [s EXCEPT !.pc = pc,
              !.events = Append(@, [response |-> response, part |-> part_number,
                                    total |-> total])]

\* ------------------------------------------ upload_large_file (741-783)
FinallyClosesAnySource(s, err) ==
    Raise([s EXCEPT !.handle = "closed", !.closes = @ + 1], err)

\* The finally clause, lines 781-783, then the exception leaves the generator.
Finally(s, err) ==
    Raise([s EXCEPT !.handle = IF s.is_path THEN "closed" ELSE @,
                    !.closes = IF s.is_path THEN @ + 1 ELSE @], err)

CancelRequestOtherFile(s, reply) ==
    Request("cancel_large_file", "", "f1", 0, 0, 0, <<>>, reply)

CancelRequest(s, reply) ==
    Request("cancel_large_file", "", s.file_id, 0, 0, 0, <<>>, reply)

\* The except clause, lines 778-780, for an exception err raised in the try
\* block: the set of generators it can leave.
ExceptNoCancel(s, err) == {Finally([s EXCEPT !.cause = err], err)}

Except(s, err) ==
    IF IsBlazeError(err.kind)
    THEN {Finally(Sent([s EXCEPT !.cause = err], CancelRequest(s, reply)),
                  IF api_result(reply, "cancel_large_file") # NoError
                  THEN api_result(reply, "cancel_large_file") ELSE err)
            : reply \in CancelReplies}
    ELSE {Finally(s, err)}

Min(a, b) == IF a < b THEN a ELSE b

\* file_handle.read(parts_size) at position pos of a source of size bytes.
\* A read that takes two parts at once.
ReadLenTwoParts(s) == Min(2 * s.parts_size, IF s.size > s.pos THEN s.size - s.pos ELSE 0)

\* A read that always returns a whole part.
ReadLenWholePart(s) == s.parts_size

ReadLen(s) == Min(s.parts_size, IF s.size > s.pos THEN s.size - s.pos ELSE 0)

PartNumberZeroBased(s) == s.i

\* i + 1, the part number of loop index i (lines 773 and 776).
PartNumber(s) == s.i + 1

PrependSha(parts_sha1, sha) == <<sha>> \o parts_sha1

\* parts_sha1.append(upload_result['contentSha1'])  (line 775)
AppendSha(parts_sha1, sha) == Append(parts_sha1, sha)

PartRequest(s, url_reply, reply) ==
    Request("upload_part", "", s.file_id, PartNumber(s), s.pos, ReadLen(s), <<>>,
            reply)

\* Line 772-776 once get_upload_part_url returned url_reply and the read
\* succeeded: index the url data, upload the part, note its digest, yield.
UploadPartStep(s, url_reply) ==
    IF index_result(url_reply, "get_upload_part_url") # NoError
    THEN Except([s EXCEPT !.pos = @ + ReadLen(s)],
                index_result(url_reply, "get_upload_part_url"))
    ELSE UNION {
        LET s1 == Sent([s EXCEPT !.pos = @ + ReadLen(s)],
                       PartRequest(s, url_reply, reply))
        IN  IF api_result(reply, "upload_part") # NoError
            THEN Except(s1, api_result(reply, "upload_part"))
            ELSE IF index_result(reply, "upload_part") # NoError
            THEN Except(s1, index_result(reply, "upload_part"))
            ELSE {Yield([s1 EXCEPT !.parts_sha1 = AppendSha(@, reply.val)],
                        "part", reply, PartNumber(s), s.parts_count)}
        : reply \in UploadPartReplies}

\* One iteration of the loop of line 770, for index s.i.
PartStep(s) ==
    UNION {
        LET s1 == Sent(s, Request("get_upload_part_url", "", s.file_id, 0, 0, 0,
                                  <<>>, reply))
        IN  IF api_result(reply, "get_upload_part_url") # NoError
            THEN Except(s1, api_result(reply, "get_upload_part_url"))
            ELSE UNION {
                IF io = "OSError"
                THEN Except(s1, Error("OSError", "read"))
                ELSE UploadPartStep(s1, reply)
                : io \in IOOutcomes}
        : reply \in PartUrlReplies}

FinishRequest(s, reply) ==
    Request("finish_large_file", "", s.file_id, 0, 0, 0, s.parts_sha1, reply)

\* Line 777.
FinishStep(s) ==
    UNION {
        LET s1 == Sent(s, FinishRequest(s, reply))
        IN  IF api_result(reply, "finish_large_file") # NoError
            THEN Except(s1, api_result(reply, "finish_large_file"))
            ELSE {Yield(s1, "final", reply, 0, s.parts_count)}
        : reply \in FinishReplies}

\* The try block from loop index s.i up to the next yield.
TryBody(s) == IF s.i < s.parts_count THEN PartStep(s) ELSE FinishStep(s)

\* bucket_id if bucket_id else self.bucket_id
BucketOr(bucket, current) == IF bucket # "" THEN bucket ELSE current

StartRequest(s, bucket, reply) ==
    Request("start_large_file", bucket, "", 0, 0, 0, <<>>, reply)

StartStepInTry(s, plan, current_bucket) ==
    UNION {
        LET s1 == Sent(s, StartRequest(s, BucketOr(s.bucket, current_bucket), reply))
        IN  IF api_result(reply, "start_large_file") # NoError
            THEN Except(s1, api_result(reply, "start_large_file"))
            ELSE IF index_result(reply, "start_large_file") # NoError
            THEN Except(s1, index_result(reply, "start_large_file"))
            ELSE TryBody([s1 EXCEPT !.parts_count = plan.parts,
                                    !.parts_size = plan.part_size,
                                    !.file_id = reply.val,
                                    !.handle = IF s.is_path THEN "open" ELSE @,
                                    !.parts_sha1 = <<>>,
                                    !.i = 0])
        : reply \in StartReplies}

\* Lines 764-767 with the plan made: start the large file, open the source,
\* enter the try block.
StartStep(s, plan, current_bucket) ==
    UNION {
        LET s1 == Sent(s, StartRequest(s, BucketOr(s.bucket, current_bucket), reply))
        IN  IF api_result(reply, "start_large_file") # NoError
            THEN {Raise(s1, api_result(reply, "start_large_file"))}
            ELSE IF index_result(reply, "start_large_file") # NoError
            THEN {Raise(s1, index_result(reply, "start_large_file"))}
            ELSE UNION {
                IF s.is_path /\ io = "OSError"
                THEN {Raise(s1, Error("OSError", "open"))}
                ELSE TryBody([s1 EXCEPT !.parts_count = plan.parts,
                                        !.parts_size = plan.part_size,
                                        !.file_id = reply.val,
                                        !.handle = IF s.is_path THEN "open" ELSE @,
                                        !.parts_sha1 = <<>>,
                                        !.i = 0])
                : io \in IF s.is_path THEN IOOutcomes ELSE {"ok"}}
        : reply \in StartReplies}

\* Lines 755-763: what the first pull does before any request.  The result
\* is the error raised, or NoError with the plan.
Prologue(s, token, psize) ==
    IF ensure_auth(token, "upload_large_file") # NoError
    THEN [error |-> ensure_auth(token, "upload_large_file"), plan_arg |-> s.plan_arg,
          plan |-> upload_parts_count(0, FIVE_MB)]
    ELSE IF ~s.is_path /\ s.file_size = 0
    THEN [error |-> Error("ValueError", "upload_large_file"), plan_arg |-> s.plan_arg,
          plan |-> upload_parts_count(0, FIVE_MB)]
    ELSE LET plan == upload_parts_count(IF s.is_path THEN s.size ELSE s.file_size,
                                        psize)
         IN  [error |-> plan.error, plan_arg |-> psize, plan |-> plan]

\* The first pull of an upload_large_file generator.
FirstPull(s, token, psize, current_bucket) ==
    LET pro == Prologue(s, token, psize)
        s1 == [s EXCEPT !.plan_arg = pro.plan_arg]
    IN  IF pro.error # NoError
        THEN {Raise(s1, pro.error)}
        ELSE StartStep(s1, pro.plan, current_bucket)

NextPartSameIndex(s) == TryBody(s)

\* A pull of a generator suspended at the yield of line 776.
NextPart(s) == TryBody([s EXCEPT !.i = @ + 1])

\* A pull of a generator suspended at the yield of line 777: the try block
\* ends, the finally clause closes the handle, the generator is exhausted.
AfterFinal(s) ==
    [s EXCEPT !.pc = "done", !.stopped = TRUE,
              !.handle = IF s.is_path THEN "closed" ELSE @,
              !.closes = IF s.is_path THEN @ + 1 ELSE @]

\* ------------------------------------------- _upload_file_gen (228-238)
UploadFileRequest(s, reply) ==
    Request("upload_file", "", "", 0, 0, s.data, <<>>, reply)

\* The first pull: upload_file (437-463), then yield (result, 0, 1).
SinglePull(s, token) ==
    IF ensure_auth(token, "upload_file") # NoError
    THEN {Raise(s, ensure_auth(token, "upload_file"))}
    ELSE UNION {
        LET s1 == Sent(s, UploadFileRequest(s, reply))
        IN  IF api_result(reply, "upload_file") # NoError
            THEN {Raise(s1, api_result(reply, "upload_file"))}
            ELSE {Yield(s1, "final", reply, 0, 1)}
        : reply \in UploadFileReplies}

\* The pull after the only yield: the generator is exhausted.
SingleEnd(s) == [s EXCEPT !.pc = "done", !.stopped = TRUE]

\* A pull of a generator that returned or raised before: StopIteration, and
\* no line of the generator function runs.
EndPull(s) == [s EXCEPT !.late = TRUE]

\* ------------------------------------------------- the upload methods
\* What a call of an upload method leaves: the slot's generator (or the
\* exception raised, in a slot that is done) and the client fields
\* get_upload_url writes.
Outcome(s, b, url, token) ==
    [gen |-> s, bucket_id |-> b, upload_url |-> url, upload_token |-> token]

Keep(s) == Outcome(s, bucket_id, upload_url, upload_token)

UploadUrlRequest(bucket, reply) ==
    Request("get_upload_url", bucket, "", 0, 0, 0, <<>>, reply)

\* Lines 808-813 and 836-839: get_upload_url (418-434), read the whole
\* source, make the _upload_file_gen generator.
SingleShot(s, bucket) ==
    UNION {
        LET s1 == Sent(s, UploadUrlRequest(bucket, reply))
        IN  IF api_result(reply, "get_upload_url") # NoError
            THEN {Keep(Raise(s1, api_result(reply, "get_upload_url")))}
            ELSE IF index_result(reply, "get_upload_url") # NoError
            THEN {Keep(Raise(s1, index_result(reply, "get_upload_url")))}
            ELSE {IF io = "OSError"
                  THEN Outcome(Raise(s1, Error("OSError", "read")),
                               bucket, reply.val, reply.val)
                  ELSE Outcome([s1 EXCEPT !.kind = "single", !.pc = "new",
                                          !.data = s.size, !.pos = s.size],
                               bucket, reply.val, reply.val)
                  : io \in IOOutcomes}
        : reply \in UploadUrlReplies}

\* upload_large_file called: a generator function, nothing runs yet.
LargeGen(s, file_size, bucket) ==
    [s EXCEPT !.kind = "large", !.pc = "new", !.file_size = file_size,
              !.bucket = bucket]

DispatchAlwaysLarge(s, plan, file_size, bucket) ==
    {Keep(LargeGen(s, file_size, bucket))}

\* if parts_count == 1: ... return self._upload_file_gen(...)
\* return self.upload_large_file(...)        (lines 808-814, 836-840)
Dispatch(s, plan, file_size, bucket) ==
    IF plan.parts = 1
    THEN SingleShot(s, bucket)
    ELSE {Keep(LargeGen(s, file_size, bucket))}

\* upload_path (785-814); s holds the arguments.
upload_path(s) ==
    IF ensure_auth(auth_token, "upload_path") # NoError
    THEN {Keep(Raise(s, ensure_auth(auth_token, "upload_path")))}
    ELSE LET plan == upload_parts_count(s.size, part_size)
             s1 == [s EXCEPT !.plan_arg = part_size]
         IN  IF plan.error # NoError
             THEN {Keep(Raise(s1, plan.error))}
             ELSE Dispatch(s1, plan, 0, BucketOr(s.bucket, bucket_id))

\* upload_io (816-840); file.seek(0) puts the stream at its start.
upload_io(s) ==
    IF ensure_auth(auth_token, "upload_io") # NoError
    THEN {Keep(Raise(s, ensure_auth(auth_token, "upload_io")))}
    ELSE LET plan == upload_parts_count(s.file_size, part_size)
             s1 == [s EXCEPT !.plan_arg = part_size, !.pos = 0, !.seeks = @ + 1]
         IN  IF plan.error # NoError
             THEN {Keep(Raise(s1, plan.error))}
             ELSE Dispatch(s1, plan, s.file_size, BucketOr(s.bucket, bucket_id))

upload_without_size_check(s) ==
    IF s.is_path THEN upload_path(s) ELSE upload_io(s)

\* upload (842-866)
upload(s) ==
    IF s.is_path THEN upload_path(s)
    ELSE IF s.file_size = 0
    THEN {Keep(Raise(s, Error("ValueError", "upload")))}
    ELSE upload_io(s)

\* upload_large_file called by the user.
upload_large_file(s) == {Keep(LargeGen(s, s.file_size, s.bucket))}

\* The endpoint methods of the upload, called by the user directly.
ApiOps ==
    {"get_upload_url", "upload_file", "start_large_file", "get_upload_part_url",
     "upload_part", "finish_large_file", "cancel_large_file"}

ApiReplies(op) ==
    CASE op = "get_upload_url" -> UploadUrlReplies
      [] op = "upload_file" -> UploadFileReplies
      [] op = "start_large_file" -> StartReplies
      [] op = "get_upload_part_url" -> PartUrlReplies
      [] op = "upload_part" -> UploadPartReplies
      [] op = "finish_large_file" -> FinishReplies
      [] OTHER -> CancelReplies

\* One of the endpoint methods (418-556), s.entry, called directly:
\* _ensure_auth, the request, json_loads, check_b2_errors; get_upload_url
\* then keeps the url, the token and the bucket in the client.
api_call(s) ==
    IF ensure_auth(auth_token, s.entry) # NoError
    THEN {Keep(Raise(s, ensure_auth(auth_token, s.entry)))}
    ELSE {LET s1 == Sent(s, Request(s.entry, s.bucket, "", 0, 0, 0, <<>>, reply))
          IN  IF api_result(reply, s.entry) # NoError
              THEN Keep(Raise(s1, api_result(reply, s.entry)))
              ELSE IF s.entry # "get_upload_url"
              THEN Keep([s1 EXCEPT !.pc = "done"])
              ELSE IF index_result(reply, s.entry) # NoError
              THEN Keep(Raise(s1, index_result(reply, s.entry)))
              ELSE Outcome([s1 EXCEPT !.pc = "done"], s.bucket, reply.val, reply.val)
          : reply \in ApiReplies(s.entry)}

\* -------------------------------------------------------------- inputs
ValidPartSize(p) == p >= FIVE_MB /\ p <= FIVE_GB

\* The sizes given to set_part_size.
PartSizeInputs == {FIVE_MB - 1, FIVE_MB, TEN_MB, FIVE_GB + 1}

\* The _part_size values of a client whose attribute was assigned directly.
RawPartSizes == {FIVE_MB - 1, FIVE_MB, FIVE_GB, FIVE_GB + 1}

\* Lengths of the sources uploaded: empty, tiny, around the multiples of
\* the part size p up to MaxParts parts, and one of more than MAX_PARTS parts.
SourceSizes(p) ==
    {0, 1, MAX_PARTS * p + 1}
    \cup {n \in {k * p + d : k \in 1..MaxParts, d \in {-1, 0, 1}} :
             n <= MaxParts * p}

BucketArgs == {"", "b2"}

\* The arguments of an upload call, in a fresh slot.
Args(entry, is_path, size, file_size, bucket) ==
    [FreeGen EXCEPT !.entry = entry, !.is_path = is_path, !.size = size,
                    !.file_size = file_size, !.bucket = bucket,
                    !.call_part_size = part_size]

\* ------------------------------------------------------------- actions
\* A slot the run makes no upload call in.
NoGen == [FreeGen EXCEPT !.pc = "done"]

\* The runs of Spec and SpecRaw make one upload call.
OneUpload == [g \in Gens |-> IF g = "g1" THEN FreeGen ELSE NoGen]

NoPlan == [error |-> NoError, size |-> 0, parts |-> 0, part_size |-> 0]

\* Bound of the exploration: a run is over once every upload of it has ended.
Running == \E g \in Gens : gen[g].pc # "done"

\* BackBlazeB2.__init__ (103-128) with auth=False.
Init ==
    /\ auth_token = "None"
    /\ part_size = HUNDRED_MB
    /\ bucket_id = ""
    /\ upload_url = ""
    /\ upload_token = ""
    /\ gen = OneUpload
    /\ plan_in = <<0, HUNDRED_MB>>
    /\ plan_out = NoPlan
    /\ limited_account = FALSE
    /\ NoObjects
    /\ NoAccount

\* The fields of the client authenticate reads or writes.
Client ==
    [auth_token |-> auth_token, bucket_id |-> bucket_id,
     limited_account |-> limited_account, api_url |-> api_url,
     download_url |-> download_url, bucket_name |-> bucket_name,
     _prefix |-> _prefix]

\* The body of an authentication response: the first of the three keys
\* read at 315-317 that it lacks ("none": it has them all), their values,
\* and the 'allowed' object ("" or <<>> for a key that is absent or empty).
AuthData(reply, missing, url, bucketId, bucketName, namePrefix) ==
    [reply |-> reply, missing |-> missing, apiUrl |-> url, downloadUrl |-> url,
     allowed |-> [bucketId |-> bucketId, bucketName |-> bucketName,
                  namePrefix |-> namePrefix]]

\* Lines 318-329: the allowed bucket, the restriction flag, the prefix.
Allowed(c, allowed) ==
    LET limited == IF allowed.bucketId # "" \/ allowed.bucketName # ""
                   THEN TRUE ELSE c.limited_account
    IN [c EXCEPT !.bucket_id = IF allowed.bucketId # "" THEN allowed.bucketId ELSE @,
                 !.bucket_name = IF allowed.bucketName # "" THEN allowed.bucketName
                                 ELSE @,
                 !.limited_account = limited,
                 !._prefix = IF limited THEN allowed.namePrefix ELSE @]

\* authenticate (291-330): the client it leaves and the exception it raises.
authenticate(c, data) ==
    LET failed == api_result(data.reply, "authenticate")
        lacks == Error("KeyError", "authenticate")
        c1 == [c EXCEPT !.api_url = data.apiUrl]
        c2 == [c1 EXCEPT !.auth_token = "tok"]
        c3 == [c2 EXCEPT !.download_url = data.downloadUrl]
    IN IF failed # NoError THEN [c |-> c, error |-> failed]
       ELSE IF data.missing = "apiUrl" THEN [c |-> c, error |-> lacks]
       ELSE IF data.missing = "authorizationToken" THEN [c |-> c1, error |-> lacks]
       ELSE IF data.missing = "downloadUrl" THEN [c |-> c2, error |-> lacks]
       ELSE [c |-> Allowed(c3, data.allowed), error |-> NoError]

Authenticated(c) ==
    /\ auth_token' = c.auth_token
    /\ bucket_id' = c.bucket_id
    /\ limited_account' = c.limited_account
    /\ api_url' = c.api_url
    /\ download_url' = c.download_url
    /\ bucket_name' = c.bucket_name
    /\ _prefix' = c._prefix

\* The responses of the upload runs: a body without keys lacks the first,
\* a key restricted to a bucket names its id only.
UploadAuthData(reply) ==
    AuthData(reply, IF reply.fields THEN "none" ELSE "apiUrl", "api", reply.val, "", <<>>)

Authenticate ==
    /\ Running
    /\ \E reply \in AuthReplies :
         Authenticated(authenticate(Client, UploadAuthData(reply)).c)
    /\ UNCHANGED <<part_size, upload_url, upload_token, gen, plan_in, plan_out,
                   objects, util>>

set_part_size_unchecked(size) == [error |-> NoError, part_size |-> size]

\* set_part_size (242-251): the exception it raises, or NoError, and the
\* _part_size it leaves.
set_part_size(size) ==
    IF size < FIVE_MB \/ size > FIVE_GB
    THEN [error |-> Error("ValueError", "set_part_size"), part_size |-> part_size]
    ELSE [error |-> NoError, part_size |-> size]

SetPartSize ==
    /\ Running
    /\ \E size \in PartSizeInputs :
         /\ part_size' = set_part_size(size).part_size
         /\ UNCHANGED <<auth_token, bucket_id, upload_url, upload_token, gen,
                        plan_in, plan_out, limited_account, objects, util, account>>

\* The caller calls one of the upload methods with a source and arguments.
CallArgs ==
    {Args(entry, is_path, size, file_size, bucket) :
        entry \in {"upload", "upload_path", "upload_io", "upload_large_file"},
        is_path \in BOOLEAN,
        size \in SourceSizes(IF ValidPartSize(part_size) THEN part_size ELSE FIVE_MB),
        file_size \in {0} \cup
            SourceSizes(IF ValidPartSize(part_size) THEN part_size ELSE FIVE_MB),
        bucket \in BucketArgs}

\* The arguments of a direct call of an endpoint method.
ApiArgs == {Args(op, FALSE, 0, 0, bucket) : op \in ApiOps, bucket \in BucketArgs}

Applies(a) ==
    /\ a.entry = "upload_path" => a.is_path
    /\ a.entry = "upload_io" => ~a.is_path
    /\ a.is_path => a.file_size = 0
    /\ ~a.is_path => a.file_size \in {0, a.size}

Called(a) ==
    CASE a.entry = "upload" -> upload(a)
      [] a.entry = "upload_path" -> upload_path(a)
      [] a.entry = "upload_io" -> upload_io(a)
      [] a.entry = "upload_large_file" -> upload_large_file(a)
      [] OTHER -> api_call(a)

Call(g) ==
    /\ gen[g].pc = "free"
    /\ \E a \in {x \in CallArgs : Applies(x)} \cup ApiArgs :
         \E out \in Called(a) :
            /\ gen' = [gen EXCEPT ![g] = out.gen]
            /\ bucket_id' = out.bucket_id
            /\ upload_url' = out.upload_url
            /\ upload_token' = out.upload_token
    /\ UNCHANGED <<auth_token, part_size, plan_in, plan_out, limited_account,
                   objects, util, account>>

\* Bound of the exploration: an upload of more than MaxParts parts is left
\* out, unless it has more than MAX_PARTS parts: that one is followed
\* through its first pull.
WithinBound(s) ==
    \/ Prologue(s, auth_token, part_size).error # NoError
    \/ Prologue(s, auth_token, part_size).plan.parts <= MaxParts
    \/ Prologue(s, auth_token, part_size).plan.parts > MAX_PARTS

Step(g, results) ==
    /\ \E t \in results : gen' = [gen EXCEPT ![g] = t]
    /\ UNCHANGED <<client, plan_in, plan_out, limited_account, objects, util, account>>

PullFirst(g) ==
    /\ gen[g].kind = "large" /\ gen[g].pc = "new"
    /\ WithinBound(gen[g])
    /\ Step(g, FirstPull(gen[g], auth_token, part_size, bucket_id))

PullPart(g) ==
    /\ gen[g].kind = "large" /\ gen[g].pc = "part"
    /\ gen[g].parts_count <= MaxParts
    /\ Step(g, NextPart(gen[g]))

PullFinal(g) ==
    /\ gen[g].kind = "large" /\ gen[g].pc = "final"
    /\ Step(g, {AfterFinal(gen[g])})

PullSingle(g) ==
    /\ gen[g].kind = "single" /\ gen[g].pc = "new"
    /\ Step(g, SinglePull(gen[g], auth_token))

PullSingleEnd(g) ==
    /\ gen[g].kind = "single" /\ gen[g].pc = "final"
    /\ Step(g, {SingleEnd(gen[g])})

PullDone(g) ==
    /\ gen[g].kind # "none" /\ gen[g].pc = "done"
    /\ Step(g, {EndPull(gen[g])})

Next ==
    \/ Authenticate
    \/ SetPartSize
    \/ \E g \in Gens : Call(g)
    \/ \E g \in Gens : PullFirst(g)
    \/ \E g \in Gens : PullPart(g)
    \/ \E g \in Gens : PullFinal(g)
    \/ \E g \in Gens : PullSingle(g)
    \/ \E g \in Gens : PullSingleEnd(g)
    \/ \E g \in Gens : PullDone(g)

Spec == Init /\ [][Next]_vars

\* A client whose _part_size attribute was assigned directly: the only way
\* an upload method can meet a part size that upload_parts_count rejects.
InitRaw ==
    /\ auth_token = "None"
    /\ part_size \in RawPartSizes
    /\ bucket_id = ""
    /\ upload_url = ""
    /\ upload_token = ""
    /\ gen = OneUpload
    /\ plan_in = <<0, HUNDRED_MB>>
    /\ plan_out = NoPlan
    /\ limited_account = FALSE
    /\ NoObjects
    /\ NoAccount

SpecRaw == InitRaw /\ [][Next]_vars

\* ------------------------------------------- two uploads on one client
\* Two large-file uploads of two different files, one per slot, both of two
\* parts at the default part size.
TwoUploads ==
    [g \in Gens |->
        IF g = "g1"
        THEN Args("upload_large_file", TRUE, 2 * HUNDRED_MB, 0, "")
        ELSE Args("upload_large_file", TRUE, HUNDRED_MB + 1, 0, "b2")]

\* The caller calls upload_large_file for the file of slot g.
CallLarge(g) ==
    /\ gen[g].pc = "free"
    /\ \E out \in upload_large_file(TwoUploads[g]) :
          gen' = [gen EXCEPT ![g] = out.gen]
    /\ UNCHANGED <<client, plan_in, plan_out, limited_account, objects, util, account>>

\* An authenticated client (authenticate answered with allowed.bucketId b1)
\* on which no upload was called yet.
InitTwo ==
    /\ auth_token = "tok"
    /\ part_size = HUNDRED_MB
    /\ bucket_id = "b1"
    /\ upload_url = ""
    /\ upload_token = ""
    /\ gen = [g \in Gens |-> FreeGen]
    /\ plan_in = <<0, HUNDRED_MB>>
    /\ plan_out = NoPlan
    /\ limited_account = TRUE
    /\ NoObjects
    /\ Signed
    /\ _prefix = <<>>

NextTwo ==
    \/ \E g \in Gens : CallLarge(g)
    \/ \E g \in Gens : PullFirst(g)
    \/ \E g \in Gens : PullPart(g)
    \/ \E g \in Gens : PullFinal(g)

SpecTwo == InitTwo /\ [][NextTwo]_vars

\* ------------------------------------------------------- planner runs
PlanPartSizes ==
    (FIVE_MB - PlanSlack .. FIVE_MB + PlanSlack) \cup {TEN_MB, HUNDRED_MB}
    \cup (FIVE_GB - PlanSlack .. FIVE_GB + PlanSlack)

PlanSizes(p) ==
    {n \in {k * p + d : k \in 0..MaxPlanParts, d \in -PlanSlack..PlanSlack} : n >= 0}

RunPlan ==
    \E p \in PlanPartSizes : \E size \in PlanSizes(p) :
        /\ plan_in' = <<size, p>>
        /\ plan_out' = upload_parts_count(size, p)
        /\ UNCHANGED <<client, gen, limited_account, objects, util, account>>

NextPlan == RunPlan

SpecPlan == Init /\ [][NextPlan]_vars

\* ------------------------------------------- models.py: Bucket listing
\* The Bucket under study and the bucket the client has selected.
BucketId == "b2"

FOLDER_DELIMITER == "/"

\* File names and file ids are numbers (0 is the empty string, '' or None)
\* and the service lists names in ascending order.  Every file of the
\* bucket has a name that starts with p; the first FolderFiles names are
\* those of the folder p/.
Prefixes == {<<>>, <<"p">>}
Delimiters == {FOLDER_DELIMITER, "None"}
PageSizes == {1, 2}
FolderFiles == 2

\* The leading characters of the name n.
NameOf(n) == <<"p", IF n <= FolderFiles THEN "/" ELSE "x">>

\* str.startswith and str.endswith
StartsWith(name, start) ==
    Len(start) <= Len(name) /\ \A k \in 1..Len(start) : name[k] = start[k]

EndsWith(name, end) == name # <<>> /\ name[Len(name)] = end

Under(prefix, n) == StartsWith(NameOf(n), prefix)

RECURSIVE Ascending(_)
Ascending(S) ==
    IF S = {} THEN <<>>
    ELSE LET m == CHOOSE x \in S : \A y \in S : x <= y
         IN <<m>> \o Ascending(S \ {m})

\* Every name the service lists for a prefix from start_name on.
Listing(have, prefix, start_name) ==
    Ascending({n \in have : Under(prefix, n) /\ n >= start_name})

FileInfo(n) == [fileName |-> n, fileId |-> n]

\* BackBlazeB2.prefix (195-204) of a client whose _prefix is p.
Prefix(p, append_slash) ==
    p \o (IF append_slash /\ ~EndsWith(p, "/") THEN <<"/">> ELSE <<>>)

\* Lines 583-591 of list_files: the body of the request.
list_files_params(a, bucket, p, limited) ==
    [bucketId |-> IF bucket # "" THEN bucket ELSE bucket_id,
     prefix |-> IF a.prefix = <<>> \/ limited THEN Prefix(p, TRUE) ELSE a.prefix,
     delimiter |-> IF a.delimiter # "None" THEN a.delimiter ELSE FOLDER_DELIMITER,
     maxFileCount |-> a.max_files,
     startFileName |-> a.start_name]

\* The data list_files returns when the service answers: at most max_files
\* names from start_name on and the name the next page starts with (0: none).
list_files(have, a) ==
    LET params == list_files_params(a, BucketId, _prefix, limited_account)
        all == Listing(have, params.prefix, params.startFileName)
    IN [files |-> [k \in 1..Min(params.maxFileCount, Len(all)) |-> FileInfo(all[k])],
        nextFileName |-> IF Len(all) > params.maxFileCount
                         THEN all[params.maxFileCount + 1] ELSE 0]

ListArgs(prefix, delimiter, max_files, start_name) ==
    [prefix |-> prefix, delimiter |-> delimiter, max_files |-> max_files,
     start_name |-> start_name]

ListOutcomes == {NoError, Error("ResponseError", "list_files")}

\* File.__init__
File(bucket, data) == [name |-> data.fileName, id |-> data.fileId, bucket |-> bucket]

\* The listing state of the Bucket.
Cursor == [next_files |-> next_files, next_params |-> next_params, log |-> list_log]

\* The log after a call of list_files: its arguments, who made it, what it
\* raised or returned, and the cursor the Bucket held when it was made.
Listed(w, a, by, outcome, results) ==
    LET call == [args |-> a, bucket_id |-> BucketId, by |-> by, outcome |-> outcome,
                 reply |-> IF outcome = NoError THEN results
                           ELSE [files |-> <<>>, nextFileName |-> 0],
                 cursor |-> w.next_files]
    IN IF by = "lister" THEN Append(w.log, call) ELSE <<call>>

\* A files() that leaves a pending cursor in place when the new listing has none.
files_keeps_cursor(w, a, by, have, outcome) ==
    LET results == list_files(have, a)
        more == results.nextFileName # 0
    IN IF outcome # NoError
       THEN [w |-> [w EXCEPT !.log = Listed(w, a, by, outcome, results)],
             value |-> <<>>, error |-> outcome]
       ELSE [w |-> [next_files |-> IF more THEN results.nextFileName ELSE w.next_files,
                    next_params |-> IF more THEN <<a.prefix, a.delimiter, a.max_files>>
                                    ELSE w.next_params,
                    log |-> Listed(w, a, by, outcome, results)],
             value |-> [k \in DOMAIN results.files |-> File(BucketId, results.files[k])],
             error |-> NoError]

\* A files() that saves the default page size for the following pages.
files_saves_default(w, a, by, have, outcome) ==
    LET results == list_files(have, a)
    IN IF outcome # NoError
       THEN [w |-> [w EXCEPT !.log = Listed(w, a, by, outcome, results)],
             value |-> <<>>, error |-> outcome]
       ELSE [w |-> [next_files |-> results.nextFileName,
                    next_params |-> IF results.nextFileName # 0
                                    THEN <<a.prefix, a.delimiter, 1>> ELSE <<>>,
                    log |-> Listed(w, a, by, outcome, results)],
             value |-> [k \in DOMAIN results.files |-> File(BucketId, results.files[k])],
             error |-> NoError]

\* Bucket.files (188-199): the Bucket afterwards, the list returned, the
\* exception raised. A call that raises at line 196 assigns nothing.
files(w, a, by, have, outcome) ==
    LET results == list_files(have, a)
    IN IF outcome # NoError
       THEN [w |-> [w EXCEPT !.log = Listed(w, a, by, outcome, results)],
             value |-> <<>>, error |-> outcome]
       ELSE [w |-> [next_files |-> results.nextFileName,
                    next_params |-> IF results.nextFileName # 0
                                    THEN <<a.prefix, a.delimiter, a.max_files>>
                                    ELSE <<>>,
                    log |-> Listed(w, a, by, outcome, results)],
             value |-> [k \in DOMAIN results.files |-> File(BucketId, results.files[k])],
             error |-> NoError]

\* A loop of more_files that asks the service even without a cursor.
more_files_always_asks(w, have, outcome) ==
    LET r == files(w, ListArgs(<<>>, FOLDER_DELIMITER, 1, w.next_files), "lister",
                   have, outcome)
    IN [w |-> r.w, page |-> r.value, error |-> r.error,
        done |-> r.error # NoError \/ r.value = <<>>]

\* One turn of the loop of Bucket.more_files (221-227): the page it is
\* about to yield, or done when it breaks or files() raises.
more_files(w, have, outcome) ==
    IF w.next_files = 0 \/ w.next_params = <<>>
    THEN [w |-> w, page |-> <<>>, error |-> NoError, done |-> TRUE]
    ELSE LET r == files(w, ListArgs(w.next_params[1], w.next_params[2],
                                    w.next_params[3], w.next_files),
                        "lister", have, outcome)
         IN [w |-> r.w, page |-> r.value, error |-> r.error,
             done |-> r.error # NoError \/ r.value = <<>>]

\* The generator after a pull, with the Bucket it leaves.
Pulled(l, w) == [lister |-> l, w |-> w]

LEnd(l, err) == [l EXCEPT !.pc = "done", !.page = <<>>, !.error = err]

\* An all_files that yields the first file of a further page twice.
NextPageKeepsFirst(l, w, have, outcome) ==
    LET m == more_files(w, have, outcome)
    IN IF m.done THEN Pulled(LEnd(l, m.error), m.w)
       ELSE Pulled([l EXCEPT !.pc = "more", !.out = Append(@, m.page[1]),
                             !.page = m.page], m.w)

\* all_files (240-242): run more_files() until it yields a page, then
\* yield the first file of the page.
NextPage(l, w, have, outcome) ==
    LET m == more_files(w, have, outcome)
    IN IF m.done THEN Pulled(LEnd(l, m.error), m.w)
       ELSE Pulled([l EXCEPT !.pc = "more", !.out = Append(@, m.page[1]),
                             !.page = Tail(m.page)], m.w)

\* One pull of the generator Bucket.all_files returned (238-242).
all_files(l, w, have, first, outcome) ==
    IF l.pc = "new"
    THEN LET r == files(w, l.args, "lister", have, first)
         IN IF r.error # NoError THEN Pulled(LEnd(l, r.error), r.w)
            ELSE IF r.value # <<>>
            THEN Pulled([l EXCEPT !.pc = "first", !.out = Append(@, r.value[1]),
                                  !.page = Tail(r.value)], r.w)
            ELSE NextPage(l, r.w, have, outcome)
    ELSE IF l.page # <<>>
    THEN Pulled([l EXCEPT !.out = Append(@, l.page[1]), !.page = Tail(@)], w)
    ELSE NextPage(l, w, have, outcome)

\* One pull of the generator Bucket.more_files returned (221-227).
more_files_pull(l, w, have, outcome) ==
    LET m == more_files(w, have, outcome)
    IN IF m.done THEN Pulled(LEnd(l, m.error), m.w)
       ELSE Pulled([l EXCEPT !.pc = "more", !.out = Append(@, m.page)], m.w)

SetCursor(w) ==
    /\ next_files' = w.next_files
    /\ next_params' = w.next_params
    /\ list_log' = w.log

Active == lister.pc \in {"new", "first", "more"}

Returned(op, args, value, error) ==
    [op |-> op, args |-> args, value |-> value, error |-> error]

Rest == <<client, gen, plan_in, plan_out, limited_account, util, account>>

\* The caller calls bucket.files(prefix, max_files=max_files).
CallFiles ==
    \E prefix \in Prefixes : \E max_files \in PageSizes : \E outcome \in ListOutcomes :
        LET a == ListArgs(prefix, FOLDER_DELIMITER, max_files, 0)
            r == files(Cursor, a, "files", stored, outcome)
        IN /\ SetCursor(r.w)
           /\ lister' = IF lister.pc \notin {"free", "new"}
                        THEN [lister EXCEPT !.disturbed = TRUE] ELSE lister
           /\ ret' = NoReturn
           /\ UNCHANGED <<stored, Rest>>

\* The caller calls bucket.all_files(...): nothing runs before the first pull.
CallAllFiles ==
    \E prefix \in Prefixes : \E delimiter \in Delimiters : \E max_files \in PageSizes :
        /\ lister.pc = "free"
        /\ lister' = [FreeLister EXCEPT
                          !.kind = "all_files", !.pc = "new",
                          !.args = ListArgs(prefix, delimiter, max_files, 0)]
        /\ ret' = NoReturn
        /\ UNCHANGED <<stored, next_files, next_params, list_log, Rest>>

\* The caller calls bucket.more_files().
CallMoreFiles ==
    /\ lister.pc = "free"
    /\ lister' = [FreeLister EXCEPT !.kind = "more_files", !.pc = "new"]
    /\ ret' = NoReturn
    /\ UNCHANGED <<stored, next_files, next_params, list_log, Rest>>

\* The caller pulls the next item of the generator.
PullLister ==
    \E first \in ListOutcomes : \E outcome \in ListOutcomes :
        LET p == IF lister.kind = "all_files"
                 THEN all_files(lister, Cursor, stored, first, outcome)
                 ELSE more_files_pull(lister, Cursor, stored, outcome)
        IN /\ Active
           /\ Len(lister.out) <= MaxFiles
           /\ lister' = p.lister
           /\ SetCursor(p.w)
           /\ ret' = NoReturn
           /\ UNCHANGED <<stored, Rest>>

\* Somebody deletes the file with the last name while a listing of the
\* Bucket has pages left.
DeleteFile ==
    /\ stored # {}
    /\ next_files # 0
    /\ stored' = stored \ {CHOOSE n \in stored : \A m \in stored : m <= n}
    /\ lister' = IF lister.pc \notin {"free", "new"}
                 THEN [lister EXCEPT !.changed = TRUE] ELSE lister
    /\ ret' = NoReturn
    /\ UNCHANGED <<next_files, next_params, list_log, Rest>>

InfoOutcomes ==
    {NoError, Error("ResponseError", "get_file_info"),
     Error("InternetError", "get_file_info")}

\* A Bucket.file that takes whatever the one-file listing returned for a name.
file_any_listed(w, file_id, file_name, have, outcome) ==
    LET r == files(w, ListArgs(<<>>, FOLDER_DELIMITER, 1, file_name), "file",
                   have, outcome)
    IN [w |-> r.w, value |-> r.value, error |-> r.error]

\* Bucket.file (259-276)
file(w, file_id, file_name, have, outcome) ==
    IF file_name # 0
    THEN LET r == files(w, ListArgs(<<>>, FOLDER_DELIMITER, 1, file_name), "file",
                        have, outcome)
         IN [w |-> r.w,
             value |-> IF r.value = <<>> THEN <<>> ELSE <<r.value[1]>>,
             error |-> IF r.error # NoError THEN r.error
                       ELSE IF r.value = <<>> THEN Error("FileError", "file")
                       ELSE NoError]
    ELSE [w |-> w,
          value |-> IF outcome = NoError
                    THEN <<File(BucketId, FileInfo(file_id))>> ELSE <<>>,
          error |-> IF outcome.kind = "ResponseError"
                    THEN Error("FileError", "file") ELSE outcome]

\* The caller calls bucket.file(file_name=n) or bucket.file(file_id=i). The
\* service reports a response error for the id of no file.
CallFile ==
    \E file_id \in 0..MaxFiles : \E file_name \in 0..MaxFiles :
    \E outcome \in ListOutcomes \cup InfoOutcomes :
        LET r == file(Cursor, file_id, file_name, stored, outcome)
        IN /\ file_id = 0 \/ file_name = 0
           /\ IF file_name # 0
              THEN outcome \in ListOutcomes
              ELSE /\ outcome \in InfoOutcomes
                   /\ outcome = NoError => file_id \in stored
                   /\ outcome.kind = "ResponseError" => file_id \notin stored
           /\ SetCursor(r.w)
           /\ ret' = Returned("file", [file_id |-> file_id, file_name |-> file_name,
                                       have |-> stored], r.value, r.error)
           /\ UNCHANGED <<stored, lister, Rest>>

\* ------------------------------------------ models.py: B2Objects.bucket
BucketInfo(id) == [bucketId |-> id, bucketName |-> <<"name of", id>>]
BucketIds == {"b1", "b2"}

\* What list_buckets returns or raises: the lists of one or two buckets,
\* the empty list, data without the key 'buckets', a service error.
BucketReplies ==
    {[error |-> e, has_buckets |-> TRUE, buckets |-> <<>>] :
        e \in {NoError, Error("ResponseError", "list_buckets")}}
    \cup {[error |-> NoError, has_buckets |-> FALSE, buckets |-> <<>>]}
    \cup {[error |-> NoError, has_buckets |-> TRUE, buckets |-> <<BucketInfo(a)>>] :
             a \in BucketIds}
    \cup {[error |-> NoError, has_buckets |-> TRUE,
           buckets |-> <<BucketInfo(a), BucketInfo(b)>>] :
             a \in BucketIds, b \in BucketIds}

\* Bucket.__init__ (164-176)
Bucket(data) ==
    [id |-> data.bucketId, name |-> data.bucketName,
     next_files |-> 0, next_params |-> <<>>]

OrNone(x) == IF x # "" THEN x ELSE "None"

\* A B2Objects.bucket that takes the last entry of the list.
bucket_last_entry(limited, current, name, id, reply) ==
    LET response == IF reply.has_buckets THEN reply.buckets ELSE <<>>
    IN [request |-> <<OrNone(id), OrNone(name)>>,
        value |-> IF reply.error = NoError /\ response # <<>>
                  THEN <<Bucket(response[Len(response)])>> ELSE <<>>,
        error |-> IF reply.error # NoError THEN reply.error
                  ELSE IF response = <<>> THEN Error("BucketError", "bucket")
                  ELSE NoError]

\* B2Objects.bucket (80-96): the arguments given to list_buckets (none on a
\* limited account), the Bucket returned, the exception raised.
bucket(limited, current, name, id, reply) ==
    LET response == IF reply.has_buckets THEN reply.buckets ELSE <<>>
    IN IF limited
       THEN [request |-> <<>>, value |-> <<Bucket(BucketInfo(current))>>,
             error |-> NoError]
       ELSE [request |-> <<OrNone(id), OrNone(name)>>,
             value |-> IF reply.error = NoError /\ response # <<>>
                       THEN <<Bucket(response[1])>> ELSE <<>>,
             error |-> IF reply.error # NoError THEN reply.error
                       ELSE IF response = <<>> THEN Error("BucketError", "bucket")
                       ELSE NoError]

\* The caller calls B2Objects.bucket(name, bucket_id).
CallBucket ==
    \E name \in {"", "n"} : \E id \in {""} \cup BucketIds : \E reply \in BucketReplies :
        LET r == bucket(limited_account, bucket_id, name, id, reply)
        IN /\ ret' = Returned("bucket",
                              [name |-> name, bucket_id |-> id, request |-> r.request,
                               reply |-> IF limited_account THEN <<>> ELSE <<reply>>],
                              r.value, r.error)
           /\ UNCHANGED <<stored, next_files, next_params, list_log, lister, Rest>>

\* An authenticated client, restricted to the bucket b1 or not, with or
\* without a name prefix, and a Bucket b2 that was just built; the bucket
\* holds the files 1..n.
InitList ==
    /\ auth_token = "tok"
    /\ part_size = HUNDRED_MB
    /\ bucket_id = "b1"
    /\ upload_url = ""
    /\ upload_token = ""
    /\ gen = [g \in Gens |-> NoGen]
    /\ plan_in = <<0, HUNDRED_MB>>
    /\ plan_out = NoPlan
    /\ limited_account \in BOOLEAN
    /\ api_url = "api"
    /\ download_url = "api"
    /\ bucket_name = IF limited_account THEN BucketInfo("b1").bucketName ELSE ""
    /\ _prefix \in FilePrefixes
    /\ stored \in {1..n : n \in 0..MaxFiles}
    /\ next_files = 0
    /\ next_params = <<>>
    /\ list_log = <<>>
    /\ lister = FreeLister
    /\ ret = NoReturn
    /\ util_in = <<>>
    /\ util_out = NoReturn

NextList ==
    \/ CallFiles
    \/ CallAllFiles
    \/ CallMoreFiles
    \/ PullLister
    \/ DeleteFile

SpecList == InitList /\ [][NextList]_vars

NextObjects ==
    \/ CallFile
    \/ CallBucket

\* As InitList, the bucket holding any files.
InitObjects ==
    /\ auth_token = "tok"
    /\ part_size = HUNDRED_MB
    /\ bucket_id = "b1"
    /\ upload_url = ""
    /\ upload_token = ""
    /\ gen = [g \in Gens |-> NoGen]
    /\ plan_in = <<0, HUNDRED_MB>>
    /\ plan_out = NoPlan
    /\ limited_account \in BOOLEAN
    /\ api_url = "api"
    /\ download_url = "api"
    /\ bucket_name = IF limited_account THEN BucketInfo("b1").bucketName ELSE ""
    /\ _prefix \in FilePrefixes
    /\ stored \in SUBSET (1..MaxFiles)
    /\ next_files = 0
    /\ next_params = <<>>
    /\ list_log = <<>>
    /\ lister = FreeLister
    /\ ret = NoReturn
    /\ util_in = <<>>
    /\ util_out = NoReturn

SpecObjects == InitObjects /\ [][NextObjects]_vars

\* ------------------------------------------- models.py: Bucket uploads
\* Bucket.upload_iter (282-288): the generator of BackBlazeB2.upload for
\* the Bucket's own id.
upload_iter(a) == upload([a EXCEPT !.bucket = BucketId])

\* One pull of an upload generator.
Pull(s) ==
    CASE s.kind = "large" /\ s.pc = "new" ->
             FirstPull(s, auth_token, part_size, bucket_id)
      [] s.kind = "large" /\ s.pc = "part" -> NextPart(s)
      [] s.kind = "large" /\ s.pc = "final" -> {AfterFinal(s)}
      [] s.kind = "single" /\ s.pc = "new" -> SinglePull(s, auth_token)
      [] s.kind = "single" /\ s.pc = "final" -> {SingleEnd(s)}
      [] OTHER -> {s}

\* list(generator): the generator pulled until it ends or raises.
RECURSIVE Drained(_)
Drained(s) == IF s.pc = "done" THEN {s} ELSE UNION {Drained(t) : t \in Pull(s)}

\* The file information in the response of upload_file or finish_large_file.
FileData(response) == [fileName |-> response.val, fileId |-> response.val]

\* A Bucket.upload that builds the File from the first event.
bucket_upload_first_event(d) ==
    [value |-> IF d.error = NoError
               THEN <<File(BucketId, FileData(d.events[1].response))>> ELSE <<>>,
     error |-> d.error]

\* Bucket.upload (290-294) for the drained generator d: element 0 of the
\* last tuple, or the exception the call or a pull raised.
bucket_upload(d) ==
    [value |-> IF d.error = NoError
               THEN <<File(BucketId, FileData(d.events[Len(d.events)].response))>>
               ELSE <<>>,
     error |-> d.error]

\* Sources of one part and of two parts, as a path and as a stream.
BucketUploadArgs(entry) ==
    {Args(entry, is_path, size, IF is_path THEN 0 ELSE size, "") :
        is_path \in BOOLEAN, size \in {1, part_size, part_size + 1, 2 * part_size}}

\* The caller calls bucket.upload_iter(...).
CallUploadIter(g) ==
    /\ gen[g].pc = "free"
    /\ \E a \in BucketUploadArgs("upload_iter") : \E out \in upload_iter(a) :
          /\ gen' = [gen EXCEPT ![g] = out.gen]
          /\ bucket_id' = out.bucket_id
          /\ upload_url' = out.upload_url
          /\ upload_token' = out.upload_token
    /\ UNCHANGED <<auth_token, part_size, plan_in, plan_out, limited_account,
                   objects, util, account>>

\* The caller calls bucket.upload(...).
CallBucketUpload(g) ==
    /\ gen[g].pc = "free"
    /\ \E a \in BucketUploadArgs("Bucket.upload") : \E out \in upload_iter(a) :
       \E d \in Drained(out.gen) :
          /\ gen' = [gen EXCEPT ![g] = d]
          /\ bucket_id' = out.bucket_id
          /\ upload_url' = out.upload_url
          /\ upload_token' = out.upload_token
          /\ ret' = Returned("upload", g, bucket_upload(d).value, bucket_upload(d).error)
    /\ UNCHANGED <<auth_token, part_size, plan_in, plan_out, limited_account,
                   stored, next_files, next_params, list_log, lister, util, account>>

\* An authenticated client with the bucket b1 selected, and the Bucket b2.
InitBucket ==
    /\ auth_token = "tok"
    /\ part_size = HUNDRED_MB
    /\ bucket_id = "b1"
    /\ upload_url = ""
    /\ upload_token = ""
    /\ gen = OneUpload
    /\ plan_in = <<0, HUNDRED_MB>>
    /\ plan_out = NoPlan
    /\ limited_account = FALSE
    /\ NoObjects
    /\ Signed
    /\ _prefix = <<>>

NextBucket ==
    \/ \E g \in Gens : CallUploadIter(g)
    \/ \E g \in Gens : CallBucketUpload(g)
    \/ \E g \in Gens : PullFirst(g)
    \/ \E g \in Gens : PullPart(g)
    \/ \E g \in Gens : PullFinal(g)
    \/ \E g \in Gens : PullSingle(g)
    \/ \E g \in Gens : PullSingleEnd(g)

SpecBucket == InitBucket /\ [][NextBucket]_vars

\* ------------------------------------------------------ utils.py runs
NAME_MIN == 6
NAME_MAX == 50

\* Characters: ASCII letters, decimal digits (ASCII ones and ARABIC-INDIC
\* DIGIT THREE, U+0663), the dash, and some others.
AsciiLetters == {"a", "b", "B", "Z"}
AsciiDigits == {"2", "9"}
DecimalDigits == AsciiDigits \cup {"U+0663"}
Dash == "-"
Newline == "\n"

\* What the class [\da-zA-Z\-] of a str pattern matches.
InClass(c) == c \in DecimalDigits \cup AsciiLetters \cup {Dash}

\* match(r'^[\da-zA-Z\-]{6,50}$', name) is not None: the repetition takes n
\* characters of the class from the start, and $ matches at the end of the
\* string and also just before a newline that ends it.
NameMatches(name) ==
    \E n \in NAME_MIN..NAME_MAX :
        /\ n <= Len(name)
        /\ \A k \in 1..n : InClass(name[k])
        /\ \/ n = Len(name)
           \/ n = Len(name) - 1 /\ name[Len(name)] = Newline

\* name.startswith('b2-')
StartsWithB2(name) == Len(name) >= 3 /\ SubSeq(name, 1, 3) = <<"b", "2", Dash>>

\* utils.valid_bucket_name (29-38)
valid_bucket_name(name) == ~StartsWithB2(name) /\ NameMatches(name)

Fill(k) == [i \in 1..k |-> "a"]
NamePrefixes == {<<>>, <<"b", "2", Dash>>, <<"b", "2">>, <<"B", "2", Dash>>, <<Dash>>}
NameFills == (0..3) \cup (NAME_MIN - 1 .. NAME_MIN + 1) \cup (NAME_MAX - 4 .. NAME_MAX + 1)
NameSuffixes ==
    {<<>>, <<Newline>>, <<"_">>, <<" ">>, <<"U+0663">>, <<"9">>, <<"Z">>,
     <<Newline, Newline>>, <<Newline, "a">>}
NameInputs ==
    {p \o Fill(k) \o s : p \in NamePrefixes, k \in NameFills, s \in NameSuffixes}

RunValidBucketName ==
    \E name \in NameInputs :
        /\ util_in' = <<"valid_bucket_name", name>>
        /\ util_out' = Returned("valid_bucket_name", <<>>, valid_bucket_name(name),
                                NoError)
        /\ UNCHANGED <<client, gen, plan_in, plan_out, limited_account, objects, account>>

\* data.get('status', 0)
StatusOf(data) == IF data.has_status THEN data.status ELSE 0

StatusInputs == {0, 200, 399, 400, 401, 500}
Messages == {"", "m1", "m2"}

RunCheckB2Errors ==
    \E has_status \in BOOLEAN : \E status \in StatusInputs : \E message \in Messages :
        LET data == [has_status |-> has_status, status |-> status]
        IN /\ util_in' = <<"check_b2_errors", data, message>>
           /\ util_out' = Returned("check_b2_errors", <<>>, "None",
                                   check_b2_errors([status |-> StatusOf(data)], message))
           /\ UNCHANGED <<client, gen, plan_in, plan_out, limited_account, objects, account>>

RunCheckResponseError ==
    \E status_code \in StatusInputs \ {0} : \E text \in Messages :
        LET response == [status_code |-> status_code, text |-> text]
        IN /\ util_in' = <<"check_response_error", response>>
           /\ util_out' = Returned("check_response_error", <<>>, "None",
                                   check_response_error(response, response.text))
           /\ UNCHANGED <<client, gen, plan_in, plan_out, limited_account, objects, account>>

NextUtil ==
    \/ RunValidBucketName
    \/ RunCheckB2Errors
    \/ RunCheckResponseError

SpecUtil == Init /\ [][NextUtil]_vars

\* ------------------------------------------------ authentication runs
\* The responses to b2_authorize_account: the failures, and bodies that
\* have or lack the three keys, for a master key or for a key restricted
\* to a bucket (by id, by name or both) with or without a name prefix.
AuthResponses ==
    {AuthData(reply, "none", "api", "", "", <<>>) : reply \in Failures}
    \cup {d \in {AuthData(Ok(""), missing, url, bucketId, bucketName, namePrefix) :
                    missing \in {"none", "apiUrl", "authorizationToken", "downloadUrl"},
                    url \in {"api", "api2"},
                    bucketId \in {"", "b1"},
                    bucketName \in {"", "n1"},
                    namePrefix \in FilePrefixes} :
             d.allowed.namePrefix # <<>>
                => (d.allowed.bucketId # "" \/ d.allowed.bucketName # "")}

\* The caller calls authenticate().
RunAuthenticate ==
    \E data \in AuthResponses :
        LET r == authenticate(Client, data)
        IN /\ Authenticated(r.c)
           /\ util_in' = <<"authenticate", data>>
           /\ util_out' = r.error
           /\ UNCHANGED <<part_size, upload_url, upload_token, gen, plan_in, plan_out,
                          objects>>

NextAuth == RunAuthenticate

SpecAuth == Init /\ [][NextAuth]_vars

\* ---------------------------------------------------- list_files runs
\* The prefixes a caller passes and the prefixes a client holds.
CallerPrefixes == {<<>>, <<"p">>, <<"p", "/">>, <<"q">>}
ClientPrefixes == {<<>>, <<"p">>, <<"p", "/">>}

\* The caller calls list_files on a client whose _prefix is p.
RunListFiles ==
    \E given \in CallerPrefixes : \E delimiter \in Delimiters :
    \E max_files \in PageSizes : \E start_name \in 0..MaxFiles :
    \E p \in ClientPrefixes : \E limited \in BOOLEAN :
        LET a == ListArgs(given, delimiter, max_files, start_name)
        IN /\ util_in' = <<"list_files", a, p, limited>>
           /\ util_out' = list_files_params(a, BucketId, p, limited)
           /\ UNCHANGED <<client, gen, plan_in, plan_out, limited_account, objects,
                          account>>

NextPrefix == RunListFiles

SpecPrefix == Init /\ [][NextPrefix]_vars

\* ------------------------------------------------------------- claims
CountOp(s, op) == Cardinality({k \in 1..Len(s.calls) : s.calls[k].op = op})

\* The error a sent request ended with, as its caller sees it.
RequestFailure(c) ==
    IF api_result(c.reply, c.op) # NoError THEN api_result(c.reply, c.op)
    ELSE IF c.op \in {"start_large_file", "get_upload_part_url", "upload_part"}
    THEN index_result(c.reply, c.op)
    ELSE NoError

\* start_large_file was sent and answered with a fileId.
Started(s) ==
    /\ s.kind = "large"
    /\ Len(s.calls) >= 1
    /\ s.calls[1].op = "start_large_file"
    /\ RequestFailure(s.calls[1]) = NoError
StartedId(s) == s.calls[1].reply.val

\* The requests of the upload's steps, the cancel request left out.
Steps(s) == SelectSeq(s.calls, LAMBDA c : c.op # "cancel_large_file")
LastStep(s) == Steps(s)[Len(Steps(s))]
StepOps == {"get_upload_part_url", "upload_part", "finish_large_file"}
ServiceErrors == {"InternetError", "RequestError", "ResponseError"}

\* The last step of a started upload failed with a transport or service error.
StepFailed(s) ==
    /\ Started(s)
    /\ s.pc = "done"
    /\ LastStep(s).op \in StepOps
    /\ api_result(LastStep(s).reply, LastStep(s).op).kind \in ServiceErrors

CancelFailed(s) ==
    /\ Len(s.calls) >= 1
    /\ s.calls[Len(s.calls)].op = "cancel_large_file"
    /\ RequestFailure(s.calls[Len(s.calls)]) # NoError

\* C1: when a part upload fails and the cancel_large_file call that follows
\* fails too, the error the pull raises is the part upload's error.
C1_OriginalErrorSurvivesCancelFailure ==
    \A g \in Gens :
        (/\ StepFailed(gen[g])
         /\ LastStep(gen[g]).op = "upload_part"
         /\ CancelFailed(gen[g]))
        => gen[g].error = api_result(LastStep(gen[g]).reply, "upload_part")

\* C2: once start_large_file succeeded, a get_upload_part_url, upload_part or
\* finish_large_file that fails with InternetError, RequestError or
\* ResponseError is followed by exactly one cancel_large_file request, for the
\* fileId start_large_file returned, sent before the pull raises.
C2_ServiceErrorCancelsOnce ==
    \A g \in Gens :
        StepFailed(gen[g])
        => /\ gen[g].error # NoError
           /\ CountOp(gen[g], "cancel_large_file") = 1
           /\ gen[g].calls[Len(gen[g].calls)].op = "cancel_large_file"
           /\ gen[g].calls[Len(gen[g].calls)].file_id = StartedId(gen[g])

C2_Witness ==
    \E g \in Gens :
        /\ StepFailed(gen[g])
        /\ LastStep(gen[g]).op = "upload_part"
        /\ LastStep(gen[g]).part_number = 2
        /\ CountOp(gen[g], "cancel_large_file") = 1
        /\ StartedId(gen[g]) = "f2"

StartFailed(s) ==
    /\ s.kind = "large"
    /\ Len(s.calls) >= 1
    /\ s.calls[1].op = "start_large_file"
    /\ RequestFailure(s.calls[1]) # NoError

\* C3: when start_large_file fails, no other request is sent (no cancel, no
\* part url, no part, no finish), nothing is yielded, and the pull raises the
\* start error.
C3_StartFailureSendsNothingElse ==
    \A g \in Gens :
        StartFailed(gen[g])
        => /\ Len(gen[g].calls) = 1
           /\ gen[g].events = <<>>
           /\ gen[g].pc = "done"
           /\ gen[g].error = RequestFailure(gen[g].calls[1])

C3_Witness ==
    \E g \in Gens :
        /\ StartFailed(gen[g])
        /\ gen[g].error = Error("ResponseError", "start_large_file")

\* C4: whatever fails in a step after start_large_file succeeded (the
\* request for a part url, the read of the source, the part upload, the
\* finish request, or the use of their responses), a cancel_large_file
\* request for the fileId is sent before the pull raises.
C4_AnyFailureCancels ==
    \A g \in Gens :
        (/\ Started(gen[g])
         /\ gen[g].pc = "done"
         /\ gen[g].error # NoError
         /\ gen[g].error.from # "open")
        => /\ gen[g].calls[Len(gen[g].calls)].op = "cancel_large_file"
           /\ gen[g].calls[Len(gen[g].calls)].file_id = StartedId(gen[g])

\* C5: a multipart upload of n parts yields the part numbers 1, 2, ..., n in
\* that order, then one final event with part number 0 that carries the
\* finish_large_file response; every event reports n as total; an upload
\* that failed has yielded a prefix of the part events and no final event.
C5_EventSequence ==
    \A g \in Gens :
        gen[g].kind = "large" =>
            LET s == gen[g]
                n == s.parts_count
            IN  /\ Len(s.events) <= n + 1
                /\ \A k \in 1..Len(s.events) :
                      /\ s.events[k].total = n
                      /\ k <= n => s.events[k].part = k
                      /\ k = n + 1 =>
                            /\ s.events[k].part = 0
                            /\ LastStep(s).op = "finish_large_file"
                            /\ s.events[k].response = LastStep(s).reply
                /\ s.pc = "part" => Len(s.events) = s.i + 1
                /\ s.pc = "final" => Len(s.events) = n + 1
                /\ s.stopped => Len(s.events) = n + 1
                /\ s.error # NoError => Len(s.events) <= n

C5_Witness ==
    \E g \in Gens :
        /\ gen[g].kind = "large"
        /\ gen[g].stopped
        /\ gen[g].parts_count = 2
        /\ Len(gen[g].events) = 3

\* The successful upload_part requests sent before request k.
PartsBefore(s, k) ==
    {j \in 1..(k - 1) : s.calls[j].op = "upload_part"
                        /\ RequestFailure(s.calls[j]) = NoError}

\* C6: finish_large_file is sent only after all n parts were uploaded, with
\* the fileId start_large_file returned and a digest list of n entries whose
\* entry i is the contentSha1 answered for part number i.
C6_FinishDigests ==
    \A g \in Gens : \A k \in 1..Len(gen[g].calls) :
        (gen[g].kind = "large" /\ gen[g].calls[k].op = "finish_large_file") =>
            LET s == gen[g]
                n == s.parts_count
                f == s.calls[k]
            IN  /\ Started(s)
                /\ f.file_id = StartedId(s)
                /\ Len(f.parts_sha1) = n
                /\ Cardinality(PartsBefore(s, k)) = n
                /\ \A i \in 1..n :
                      \E j \in PartsBefore(s, k) :
                          /\ s.calls[j].part_number = i
                          /\ s.calls[j].file_id = StartedId(s)
                          /\ s.calls[j].reply.val = f.parts_sha1[i]

C6_Witness ==
    \E g \in Gens : \E k \in 1..Len(gen[g].calls) :
        /\ gen[g].kind = "large"
        /\ gen[g].calls[k].op = "finish_large_file"
        /\ gen[g].calls[k].parts_sha1 = <<"sha_a", "sha_b">>

\* A planner run that returned a plan.
Planned == plan_out.error = NoError /\ plan_out.part_size # 0

C8_EmptyIsOnePart ==
    (Planned /\ plan_in[1] = 0 /\ ValidPartSize(plan_in[2]))
    => plan_out.parts = 1

\* C9: upload_parts_count raises ValueError for a part size below 5MB or
\* above 5GB and accepts 5MB and 5GB; an upload method that meets this
\* failure has sent no request.
C9_BadPartSizeFailsBeforeAnyRequest ==
    \A g \in Gens :
        LET s == gen[g]
        IN  /\ (s.plan_arg # 0 /\ ~ValidPartSize(s.plan_arg))
               => /\ s.error = Error("ValueError", "upload_parts_count")
                  /\ s.pc = "done"
            /\ s.plan_arg \in {FIVE_MB, FIVE_GB}
               => s.error # Error("ValueError", "upload_parts_count")
            /\ s.error = Error("ValueError", "upload_parts_count")
               => /\ s.calls = <<>>
                  /\ s.events = <<>>
                  /\ ~ValidPartSize(s.plan_arg)

C9_Witness ==
    \E g \in Gens :
        /\ gen[g].entry = "upload_large_file"
        /\ gen[g].plan_arg = FIVE_GB + 1
        /\ gen[g].error = Error("ValueError", "upload_parts_count")

\* C10: a 0-byte file given to upload or upload_path is uploaded with one
\* upload_file request and no start_large_file or finish_large_file request,
\* and yields exactly one event, with part number 0 and total 1.
C10_EmptyFileIsSingleShot ==
    \A g \in Gens :
        (gen[g].entry \in {"upload", "upload_path"} /\ gen[g].size = 0)
        => /\ CountOp(gen[g], "start_large_file") = 0
           /\ CountOp(gen[g], "finish_large_file") = 0
           /\ gen[g].stopped
              => /\ CountOp(gen[g], "upload_file") = 1
                 /\ Len(gen[g].events) = 1
                 /\ gen[g].events[1].part = 0
                 /\ gen[g].events[1].total = 1

\* The methods that choose between the single upload and the large file.
Dispatchers == {"upload", "upload_path", "upload_io"}

\* The size the plan of an upload is made from: the st_size of a path, the
\* file_size argument for an open stream.
PlanSize(s) == IF s.is_path THEN s.size ELSE s.file_size

LargeOps ==
    {"start_large_file", "get_upload_part_url", "upload_part",
     "finish_large_file", "cancel_large_file"}

\* C11: upload, upload_path and upload_io choose by size alone.  A source of
\* 1 <= size <= part_size (the part size at the call) becomes a single
\* upload: once it has run to its end it has sent exactly one upload_file
\* request and no large-file request and has yielded exactly one event,
\* (response, 0, 1).  A source of size > part_size becomes a large-file
\* upload, and the part count of that upload is at least 2.
C11_DispatchBySize ==
    \A g \in Gens :
        LET s == gen[g]
        IN  (s.entry \in Dispatchers /\ s.kind # "none") =>
              /\ (1 <= PlanSize(s) /\ PlanSize(s) <= s.call_part_size) =>
                    /\ s.kind = "single"
                    /\ \A k \in 1..Len(s.calls) : s.calls[k].op \notin LargeOps
                    /\ s.stopped =>
                          /\ CountOp(s, "upload_file") = 1
                          /\ Len(s.events) = 1
                          /\ s.events[1].part = 0 /\ s.events[1].total = 1
                          /\ s.events[1].response = s.calls[Len(s.calls)].reply
              /\ PlanSize(s) > s.call_part_size =>
                    /\ s.kind = "large"
                    /\ s.file_id # "" => s.parts_count >= 2

\* C12: upload() of an open stream with no file_size (0 or omitted) raises
\* ValueError at the call: no generator is returned, no request was sent,
\* and the stream was neither read nor repositioned.
C12_StreamWithoutSizeFailsAtCall ==
    \A g \in Gens :
        LET s == gen[g]
        IN  (s.entry = "upload" /\ ~s.is_path /\ s.file_size = 0) =>
              /\ s.pc = "done" /\ s.kind = "none"
              /\ s.error = Error("ValueError", "upload")
              /\ s.calls = <<>> /\ s.events = <<>>
              /\ s.pos = 0 /\ s.seeks = 0

C12_Witness ==
    \E g \in Gens :
        /\ gen[g].entry = "upload" /\ ~gen[g].is_path
        /\ gen[g].file_size = 0 /\ gen[g].size > part_size
        /\ auth_token = "tok"
        /\ gen[g].error.kind = "ValueError"

\* C13: the handle upload_large_file opens for a path is open while the
\* upload is suspended at a yield and has been closed exactly once when the
\* upload has ended, whether all parts and finish succeeded, a step failed
\* and cancel succeeded, or a step failed and cancel failed too; an open
\* stream given by the caller is never closed.
C13_HandleClosedOnce ==
    \A g \in Gens :
        LET s == gen[g]
        IN  s.kind = "large" =>
              /\ ~s.is_path => (s.closes = 0 /\ s.handle = "none")
              /\ (s.is_path /\ s.pc \in {"part", "final"}) =>
                    (s.handle = "open" /\ s.closes = 0)
              /\ (s.is_path /\ s.pc = "done" /\ s.file_id # "") =>
                    (s.handle = "closed" /\ s.closes = 1)

C13_Witness ==
    \E g \in Gens :
        /\ gen[g].is_path /\ gen[g].late
        /\ StepFailed(gen[g]) /\ CancelFailed(gen[g])
        /\ gen[g].handle = "closed" /\ gen[g].closes = 1

\* The requests a step of the generator in slot g has added to its log.
NewCalls(g) ==
    SubSeq(gen'[g].calls, Len(gen[g].calls) + 1, Len(gen'[g].calls))
OpsOf(requests) == [k \in 1..Len(requests) |-> requests[k].op]

\* The step was a pull of a large-file upload that yielded an event.
Yielded(g) ==
    /\ gen'[g].kind = "large"
    /\ Len(gen'[g].events) = Len(gen[g].events) + 1
YieldedPart(g) == gen'[g].events[Len(gen'[g].events)].part

PlannedParts(s) == upload_parts_count(PlanSize(s), s.plan_arg).parts

\* C15: the limit of MAX_PARTS parts per file is enforced: an upload whose
\* size and part size give more than MAX_PARTS parts sends no
\* start_large_file request, and no upload_part request ever carries a part
\* number above MAX_PARTS.
C15_PartLimitEnforced ==
    \A g \in Gens :
        LET s == gen[g]
        IN  /\ (/\ s.kind = "large" /\ s.pc # "new"
                /\ ValidPartSize(s.plan_arg)
                /\ PlannedParts(s) > MAX_PARTS)
               => CountOp(s, "start_large_file") = 0
            /\ \A k \in 1..Len(s.calls) : s.calls[k].part_number <= MAX_PARTS

\* No part number is sent twice, and a request that failed is followed by
\* nothing but the one cancel request.
NoRetry(s) ==
    /\ \A j, k \in 1..Len(s.calls) :
          (/\ j < k
           /\ s.calls[j].op = "upload_part" /\ s.calls[k].op = "upload_part")
          => s.calls[j].part_number # s.calls[k].part_number
    /\ \A j, k \in 1..Len(s.calls) :
          (j < k /\ RequestFailure(s.calls[j]) # NoError)
          => (s.calls[k].op = "cancel_large_file" /\ k = j + 1 /\ k = Len(s.calls))

\* C16: no retry and no resume.  Within one upload each part number is sent
\* in at most one upload_part request; after a request that failed the only
\* request still made is the cancel; and a pull of an upload that has ended
\* yields no event and sends no request.
C16_NoRetryNoResume ==
    /\ [](\A g \in Gens : gen[g].kind = "large" => NoRetry(gen[g]))
    /\ [][\A g \in Gens :
            gen[g].pc = "done" =>
               /\ gen'[g].calls = gen[g].calls
               /\ gen'[g].events = gen[g].events
               /\ gen'[g].pc = "done"]_vars

C16_Witness ==
    \E g \in Gens :
        /\ gen[g].late
        /\ StepFailed(gen[g])
        /\ LastStep(gen[g]).op = "get_upload_part_url"
        /\ Len(gen[g].events) = 1
        /\ CountOp(gen[g], "cancel_large_file") = 1

\* C17: the part size of a client, 100MB at first, is within [5MB, 5GB]
\* after any sequence of set_part_size calls: a call with a size outside
\* the range raises ValueError and leaves the part size as it was, a call
\* with a size inside the range sets the part size to that size.
C17_PartSizeInRange ==
    /\ ValidPartSize(part_size)
    /\ \A size \in PartSizeInputs :
          IF ValidPartSize(size)
          THEN set_part_size(size) = [error |-> NoError, part_size |-> size]
          ELSE set_part_size(size) = [error |-> Error("ValueError", "set_part_size"),
                                      part_size |-> part_size]

C17_Witness ==
    /\ part_size = TEN_MB
    /\ \E g \in Gens : gen[g].call_part_size = FIVE_MB

\* The digests answered to the upload_part requests of s before request k,
\* in the order the requests were sent.
DigestsBefore(s, k) ==
    LET done == SelectSeq(SubSeq(s.calls, 1, k - 1),
                          LAMBDA c : c.op = "upload_part"
                                     /\ RequestFailure(c) = NoError)
    IN  [j \in 1..Len(done) |-> done[j].reply.val]

\* Every request of the upload is for the fileId its own start_large_file
\* was answered with, finish carries the digests of its own parts, and its
\* events number its own parts.
OwnSession(s) ==
    /\ \A k \in 1..Len(s.calls) :
          s.calls[k].op \in LargeOps \ {"start_large_file"} =>
             /\ Started(s)
             /\ s.calls[k].file_id = StartedId(s)
             /\ s.calls[k].op = "finish_large_file" =>
                   /\ s.calls[k].parts_sha1 = DigestsBefore(s, k)
                   /\ Len(s.calls[k].parts_sha1) = s.parts_count
             /\ s.calls[k].op = "upload_part" =>
                   s.calls[k].part_number = Len(DigestsBefore(s, k)) + 1
    /\ \A k \in 1..Len(s.events) :
          s.events[k].part = IF k <= s.parts_count THEN k ELSE 0

\* C18: two large-file uploads of different files on one client, their
\* pulls interleaved in any order, are independent: each sends its requests
\* for its own fileId, finishes with the digests of its own parts in
\* ascending order and yields its own part numbers 1..n; a pull of one
\* changes nothing of the other; and when one has failed (and cancelled its
\* own fileId) the other can still be pulled.
C18_InterleavedUploadsIndependent ==
    /\ [](\A g \in Gens : gen[g].kind = "large" => OwnSession(gen[g]))
    /\ [](\A g, h \in Gens :
            (g # h /\ gen[g].error # NoError) =>
               /\ gen[h].pc = "new" => ENABLED PullFirst(h)
               /\ gen[h].pc = "part" => ENABLED PullPart(h)
               /\ gen[h].pc = "final" => ENABLED PullFinal(h))
    /\ [][\A g, h \in Gens :
            (g # h /\ gen'[g] # gen[g]) => gen'[h] = gen[h]]_vars

C18_Witness ==
    /\ StepFailed(gen["g1"]) /\ Len(gen["g1"].events) = 1
    /\ StartedId(gen["g1"]) = "f1"
    /\ gen["g1"].calls[Len(gen["g1"].calls)].file_id = "f1"
    /\ gen["g2"].stopped /\ StartedId(gen["g2"]) = "f2"
    /\ gen["g2"].calls[Len(gen["g2"].calls)].op = "finish_large_file"
    /\ gen["g2"].calls[Len(gen["g2"].calls)].file_id = "f2"

\* What every call made on a client that is not authenticated leaves, its
\* error apart: no request, no event, no generator but the one
\* upload_large_file returns without running, the client's bucket, upload
\* url and upload token untouched.
NothingSent ==
    /\ bucket_id = "" /\ upload_url = "" /\ upload_token = ""
    /\ \A g \in Gens :
          /\ gen[g].calls = <<>> /\ gen[g].events = <<>>
          /\ gen[g].kind \in {"none", "large"}
          /\ gen[g].kind = "large" =>
                (gen[g].entry = "upload_large_file" /\ gen[g].pc \in {"new", "done"})

\* C20 as stated: while the client is not authenticated every upload method
\* and every endpoint method raises RequestError (upload_large_file at its
\* first pull) without sending a request or changing the client.
C20_UnauthenticatedRaisesRequestError ==
    auth_token = "None" =>
        /\ NothingSent
        /\ \A g \in Gens :
              (gen[g].entry # "none" /\ gen[g].pc = "done") =>
                  gen[g].error.kind = "RequestError"

\* C20, amended: as above, except that upload() of an open stream without
\* file_size raises ValueError, it too without a request or a change.
C20_UnauthenticatedSendsNothing ==
    auth_token = "None" =>
        /\ NothingSent
        /\ \A g \in Gens :
              (gen[g].entry # "none" /\ gen[g].pc = "done") =>
                  IF gen[g].entry = "upload" /\ ~gen[g].is_path
                     /\ gen[g].file_size = 0
                  THEN gen[g].error = Error("ValueError", "upload")
                  ELSE gen[g].error.kind = "RequestError"

C20_Witness ==
    /\ auth_token = "None"
    /\ \E g \in Gens :
          /\ gen[g].entry = "upload_large_file" /\ gen[g].kind = "large"
          /\ gen[g].pc = "done" /\ gen[g].late
          /\ gen[g].error = Error("RequestError", "upload_large_file")

\* ---------------------------------------------------- listing claims
IsPrefix(s, t) == Len(s) <= Len(t) /\ \A k \in 1..Len(s) : s[k] = t[k]

\* The files of the whole listing a generator of all_files was asked for.
Expected(l, have) ==
    LET sent == list_files_params(l.args, BucketId, _prefix, limited_account)
        all == Listing(have, sent.prefix, sent.startFileName)
    IN [k \in 1..Len(all) |-> File(BucketId, FileInfo(all[k]))]

ListerCalls(log) == SelectSeq(log, LAMBDA c : c.by = "lister")

SameParams(a, b) ==
    a.prefix = b.prefix /\ a.delimiter = b.delimiter /\ a.max_files = b.max_files

\* The generator yielded the files of the listing so far, each once and in
\* the service's order, all of them when it ended, and asked for every page
\* with the parameters it was called with.
ListsAll(l, have, log) ==
    /\ IsPrefix(l.out, Expected(l, have))
    /\ l.pc = "done" => l.out = Expected(l, have)
    /\ \A k \in 1..Len(ListerCalls(log)) : SameParams(ListerCalls(log)[k].args, l.args)

\* A pull yields one more file or ends the generator.
Advances(l, after) ==
    (after # l /\ l.pc \in {"new", "first", "more"} /\ l.changed = after.changed
         /\ l.disturbed = after.disturbed)
        => after.pc = "done" \/ Len(after.out) = Len(l.out) + 1

Served(l) == l.kind = "all_files" /\ ~l.changed /\ l.error = NoError

\* C21 as stated: whenever the service answers every request and the
\* bucket's content stays as it is, the generator of all_files yields every
\* matching file exactly once in the service's order and then ends, and asks
\* for every page with the prefix, delimiter and max_files of the first.
C21_AllFilesListsEachOnce ==
    [][Served(lister') => ListsAll(lister', stored', list_log')
                          /\ Advances(lister, lister')]_vars

\* C21: the same, provided the caller makes no other listing call (files,
\* file by name) on the same Bucket between the generator's first request
\* and its end.
C21_AllFilesAloneListsEachOnce ==
    [][(Served(lister') /\ ~lister'.disturbed)
          => ListsAll(lister', stored', list_log') /\ Advances(lister, lister')]_vars

\* A listing of three files fetched in two or more pages came to its end.
C21_Witness ==
    /\ Served(lister) /\ ~lister.disturbed
    /\ lister.pc = "done"
    /\ Len(lister.out) >= 3
    /\ Len(ListerCalls(list_log)) >= 2

\* A pull of the generator of more_files.
MorePull ==
    /\ lister.kind = "more_files"
    /\ Active
    /\ lister'.pc # lister.pc \/ lister'.out # lister.out

Last(log) == log[Len(log)]

EmptyPage(c) == c.outcome = NoError /\ c.reply.files = <<>>

PageOf(c) == [k \in DOMAIN c.reply.files |-> File(BucketId, c.reply.files[k])]

Ends(l, after) == after.pc = "done" /\ after.out = l.out /\ after.error = NoError

\* C22: a pull of more_files made without a pending cursor or without saved
\* parameters sends no request, yields nothing and ends the generator; a
\* pull whose request returns an empty list of files yields nothing and ends
\* it; a generator that ended yields nothing further.
C22_MoreFilesStops ==
    [][/\ (MorePull /\ (next_files = 0 \/ next_params = <<>>))
           => (list_log' = list_log /\ Ends(lister, lister')
               /\ next_files' = next_files /\ next_params' = next_params)
       /\ (MorePull /\ list_log' # list_log /\ EmptyPage(Last(list_log')))
           => Ends(lister, lister')
       /\ lister.pc = "done" => (lister'.pc = "done" /\ lister'.out = lister.out)
      ]_vars

\* more_files yielded a page and ended at the next request, which returned
\* an empty list.
C22_Witness ==
    /\ lister.kind = "more_files" /\ lister.pc = "done"
    /\ Len(lister.out) >= 1
    /\ list_log # <<>>
    /\ Last(list_log).by = "lister" /\ EmptyPage(Last(list_log))

\* C23: a pull of more_files made while a cursor is pending sends one
\* request, with the prefix, delimiter and max_files of the most recent
\* files() call (the one that saved them) and the cursor as start_name, and
\* yields the page it returns, when not empty, as one list after the pages
\* yielded before.
C23_MoreFilesRequestsNextPage ==
    [][(MorePull /\ next_files # 0 /\ next_params # <<>>
            /\ list_log # <<>> /\ Last(list_log).outcome = NoError)
        => LET req == Last(list_log')
           IN /\ list_log' = Append(list_log, req)
              /\ req.by = "lister" /\ req.bucket_id = BucketId
              /\ SameParams(req.args, Last(list_log).args)
              /\ req.args.start_name = next_files
              /\ (req.outcome = NoError /\ ~EmptyPage(req))
                  => (lister'.out = Append(lister.out, PageOf(req))
                      /\ lister'.pc = "more")
      ]_vars

\* After files() more_files yielded two further pages.
C23_Witness ==
    /\ lister.kind = "more_files" /\ ~lister.disturbed
    /\ Len(lister.out) >= 2
    /\ Len(list_log) >= 3
    /\ list_log[1].by = "files"

\* C24: after a files() call that returned, the Bucket holds the cursor and
\* the parameters of that listing only; a more_files() that follows asks
\* for its pages only, from its cursor on, and sends no request and yields
\* nothing when that listing had no further page, whatever cursor an
\* earlier listing had left.
C24_NewListingReplacesCursor ==
    (list_log # <<>> /\ list_log[1].by = "files" /\ list_log[1].outcome = NoError)
    => LET newest == list_log[1]
           calls == ListerCalls(list_log)
       IN /\ Len(list_log) = 1
              => /\ next_files = newest.reply.nextFileName
                 /\ next_params = IF newest.reply.nextFileName # 0
                                   THEN <<newest.args.prefix, newest.args.delimiter,
                                          newest.args.max_files>>
                                   ELSE <<>>
          /\ (lister.kind = "more_files" /\ ~lister.disturbed)
              => /\ \A k \in 1..Len(calls) : SameParams(calls[k].args, newest.args)
                 /\ calls # <<>> => calls[1].args.start_name = newest.reply.nextFileName
                 /\ newest.reply.nextFileName = 0 => (calls = <<>> /\ lister.out = <<>>)

\* The newest listing had no further page while an earlier one had; the
\* more_files() that followed ended without a request.
C24_Witness ==
    /\ lister.kind = "more_files" /\ lister.pc = "done" /\ lister.out = <<>>
    /\ Len(list_log) = 1
    /\ list_log[1].by = "files" /\ list_log[1].outcome = NoError
    /\ list_log[1].cursor # 0
    /\ list_log[1].reply.nextFileName = 0

\* ------------------------------------------------- file, bucket claims
ByName == ret.op = "file" /\ ret.args.file_name # 0
ById == ret.op = "file" /\ ret.args.file_name = 0

\* C26: file(file_name=n), when list_files answers, returns a File named n
\* if the bucket holds a file named n and raises FileError if it holds
\* none; file(file_id=i) raises FileError when get_file_info raises
\* ResponseError.
C26_FileByNameOrId ==
    /\ (ByName /\ list_log[1].outcome = NoError)
        => IF ret.args.file_name \in stored
           THEN /\ ret.error = NoError
                /\ Len(ret.value) = 1
                /\ ret.value[1].name = ret.args.file_name
           ELSE ret.error.kind = "FileError" /\ ret.value = <<>>
    /\ (ById /\ ret.args.file_id \notin stored /\ ret.error.kind # "InternetError")
        => ret.error.kind = "FileError"

\* C27: on an unrestricted account, when list_buckets answers, bucket()
\* asks for the given id and name, returns the Bucket of the first entry
\* of the list and raises BucketError when the list is empty or missing.
C27_BucketIsFirstListed ==
    (ret.op = "bucket" /\ ~limited_account /\ ret.args.reply[1].error = NoError)
    => LET reply == ret.args.reply[1]
           listed == IF reply.has_buckets THEN reply.buckets ELSE <<>>
       IN /\ ret.args.request = <<OrNone(ret.args.bucket_id), OrNone(ret.args.name)>>
          /\ IF listed = <<>>
             THEN ret.error.kind = "BucketError" /\ ret.value = <<>>
             ELSE ret.error = NoError /\ ret.value = <<Bucket(listed[1])>>

\* The service listed two different buckets and the first was returned.
C27_Witness ==
    /\ ret.op = "bucket" /\ ~limited_account
    /\ ret.error = NoError
    /\ Len(ret.args.reply[1].buckets) = 2
    /\ ret.args.reply[1].buckets[1] # ret.args.reply[1].buckets[2]
    /\ ret.value[1].id = ret.args.reply[1].buckets[1].bucketId

\* ---------------------------------------------------------- utils claims
\* What the documentation allows in a bucket name.
AllowedChar(c) == c \in AsciiLetters \cup DecimalDigits \cup {Dash}

\* C28: valid_bucket_name(name) is True exactly when name has between 6
\* and 50 characters, all of them letters, digits or dashes, and does not
\* start with 'b2-'.
C28_ValidBucketName ==
    (util_in # <<>> /\ util_in[1] = "valid_bucket_name")
    => LET name == util_in[2]
       IN util_out.value = TRUE
          <=> /\ Len(name) \in NAME_MIN..NAME_MAX
              /\ \A k \in 1..Len(name) : AllowedChar(name[k])
              /\ ~StartsWithB2(name)

\* C29: check_b2_errors raises ResponseError with the given message when
\* the data has a status of 400 or more and returns None otherwise, a
\* missing status included; check_response_error raises RequestError
\* exactly when the status code is 400 or more.
C29_ErrorChecks ==
    /\ (util_in # <<>> /\ util_in[1] = "check_b2_errors")
       => IF util_in[2].has_status /\ util_in[2].status >= 400
          THEN util_out.error = Error("ResponseError", util_in[3])
          ELSE util_out.error = NoError /\ util_out.value = "None"
    /\ (util_in # <<>> /\ util_in[1] = "check_response_error")
       => IF util_in[2].status_code >= 400
          THEN util_out.error.kind = "RequestError"
          ELSE util_out.error = NoError /\ util_out.value = "None"

\* check_b2_errors raised for a status of exactly 400.
C29_Witness ==
    /\ util_in # <<>> /\ util_in[1] = "check_b2_errors"
    /\ util_in[2].has_status /\ util_in[2].status = 400
    /\ util_in[3] = "m2"
    /\ util_out.error = Error("ResponseError", "m2")

\* ------------------------------------------------- Bucket upload claims
\* The part numbers of the events: 1, 2, ... and 0 for the final one.
InOrder(s) ==
    \A k \in 1..Len(s.events) :
        s.events[k].part = IF k = Len(s.events) /\ (s.stopped \/ s.pc = "final")
                           THEN 0 ELSE k

OwnBucket(s) ==
    \A k \in 1..Len(s.calls) :
        s.calls[k].op \in {"start_large_file", "get_upload_url"}
            => s.calls[k].bucket = BucketId

\* C25: the events of upload_iter are those of the upload to the Bucket's
\* own id, in order; upload pulls the sequence to its end and returns the
\* File of the Bucket built from the response of the last event, which has
\* part number 0.
C25_BucketUploads ==
    /\ \A g \in Gens :
          gen[g].entry \in {"upload_iter", "Bucket.upload"}
              => OwnBucket(gen[g]) /\ InOrder(gen[g])
    /\ ret.op = "upload"
       => LET s == gen[ret.args]
              last == s.events[Len(s.events)]
          IN /\ s.pc = "done"
             /\ ret.error = s.error
             /\ ret.error = NoError
                => /\ s.stopped
                   /\ last.part = 0
                   /\ LastStep(s).op \in {"finish_large_file", "upload_file"}
                   /\ last.response = LastStep(s).reply
                   /\ ret.value = <<File(BucketId, FileData(last.response))>>

\* Bucket.upload returned the File of a two-part upload.
C25_Witness ==
    /\ ret.op = "upload" /\ ret.error = NoError
    /\ gen[ret.args].parts_count = 2
    /\ Len(gen[ret.args].events) = 3
    /\ ret.value[1].bucket = BucketId

\* ------------------------------------------------------- part contents
PartUploads(s) == SelectSeq(s.calls, LAMBDA c : c.op = "upload_part")

\* C30: in a multipart upload of a source of S bytes with part size P and
\* n = ceil(S/P) parts, the k-th part uploaded is part number k and carries
\* the P bytes from offset (k-1)P when k < n and the remaining S - (n-1)P
\* bytes, between 1 and P, when k = n; the parts follow one another without
\* gap or overlap and, when the upload is complete, end at byte S.
C30_PartsCoverSource ==
    \A g \in Gens :
        LET s == gen[g]
            P == s.parts_size
            S == PlanSize(s)
            n == s.parts_count
            parts == PartUploads(s)
        IN (s.kind = "large" /\ s.file_id # "" /\ n >= 1 /\ n = Ceil(S, P))
           => /\ Len(parts) <= n
              /\ \A k \in 1..Len(parts) :
                    /\ parts[k].part_number = k
                    /\ parts[k].offset = (k - 1) * P
                    /\ parts[k].length = IF k < n THEN P ELSE S - (n - 1) * P
                    /\ parts[k].length \in 1..P
                    /\ k > 1 => parts[k].offset
                                    = parts[k - 1].offset + parts[k - 1].length
              /\ s.stopped
                 => /\ Len(parts) = n
                    /\ parts[n].offset + parts[n].length = S

\* A complete upload of two parts whose last part is one unit long.
C30_Witness ==
    \E g \in Gens :
        /\ gen[g].kind = "large" /\ gen[g].stopped
        /\ gen[g].parts_count = 2
        /\ Len(PartUploads(gen[g])) = 2
        /\ PartUploads(gen[g])[2].length = 1
        /\ PartUploads(gen[g])[1].length = gen[g].parts_size

\* ------------------------------------------------------ reading ahead
PartEvents(s) == Cardinality({k \in 1..Len(s.events) : s.events[k].part # 0})

\* The bytes of the parts whose upload_part request succeeded.
Uploaded(s) ==
    LET done == SelectSeq(PartUploads(s),
                          LAMBDA c : RequestFailure(c) = NoError)
    IN IF done = <<>> THEN 0
       ELSE done[Len(done)].offset + done[Len(done)].length

\* C31: a multipart upload has read from its source no more than the parts
\* of the events it delivered plus, while a pull runs or after it failed,
\* one part more: between pulls nothing is read ahead of the last event
\* delivered, and the bytes read and not uploaded never exceed one part.
C31_NoReadAhead ==
    \A g \in Gens :
        LET s == gen[g]
            P == s.parts_size
        IN (s.kind = "large" /\ s.file_id # "")
           => /\ s.pos <= (PartEvents(s) + 1) * P
              /\ s.pos - Uploaded(s) <= P
              /\ s.error = NoError => s.pos <= PartEvents(s) * P
              /\ s.error = NoError => s.pos = Uploaded(s)

\* The first of two parts was delivered and only its bytes were read.
C31_Witness ==
    \E g \in Gens :
        /\ gen[g].kind = "large" /\ gen[g].pc = "part"
        /\ gen[g].parts_count = 2
        /\ PartEvents(gen[g]) = 1
        /\ gen[g].pos = gen[g].parts_size
        /\ gen[g].size > gen[g].pos

\* ------------------------------------------------------ session closure
FinishedAt(s) ==
    {k \in 1..Len(s.calls) : s.calls[k].op = "finish_large_file"
                             /\ RequestFailure(s.calls[k]) = NoError}

CancelledAt(s) == {k \in 1..Len(s.calls) : s.calls[k].op = "cancel_large_file"}

FinishAskedAt(s) == {k \in 1..Len(s.calls) : s.calls[k].op = "finish_large_file"}

\* C32: a multipart upload sends start_large_file at most once; no cancel
\* follows a finish that succeeded and no finish follows a cancel; and when
\* the sequence has ended, a session that was started was closed by exactly
\* one of a successful finish_large_file and a cancel_large_file call.
C32_SessionClosedOnce ==
    \A g \in Gens :
        LET s == gen[g]
        IN s.kind = "large"
           => /\ CountOp(s, "start_large_file") <= 1
              /\ \A f \in FinishedAt(s) : \A c \in CancelledAt(s) : c < f
              /\ \A c \in CancelledAt(s) : \A f \in FinishAskedAt(s) : f < c
              /\ (s.pc = "done" /\ Started(s))
                 => Cardinality(FinishedAt(s)) + Cardinality(CancelledAt(s)) = 1

\* -------------------------------------------------- handle at the final event
FinalDelivered(s) ==
    s.events # <<>> /\ s.events[Len(s.events)].part = 0

\* C33: when a multipart upload from a path has delivered its final event
\* (part number 0), the handle the orchestrator opened is already closed.
C33_ClosedAtFinalEvent ==
    \A g \in Gens :
        LET s == gen[g]
        IN (s.kind = "large" /\ s.is_path /\ FinalDelivered(s))
           => s.handle = "closed"

\* ------------------------------------------------------ plan fixed at the call
PlanAtCall(s) == upload_parts_count(PlanSize(s), s.call_part_size)

\* C34: the plan of a multipart upload is the one derived from the part size
\* in effect when the upload method was called: once the session is started,
\* the size of its parts is that part size, its part count and the total of
\* every event are the count that part size gives, whatever set_part_size
\* did since the call; and an upload the dispatcher made multipart (its own
\* part count was not 1) does not run with a part count of 1.
C34_PlanFixedAtCall ==
    \A g \in Gens :
        LET s == gen[g]
        IN (s.kind = "large" /\ s.file_id # "")
           => /\ s.parts_size = s.call_part_size
              /\ s.parts_count = PlanAtCall(s).parts
              /\ \A k \in 1..Len(s.events) : s.events[k].total = PlanAtCall(s).parts
              /\ s.entry \in Dispatchers => s.parts_count # 1

\* ------------------------------------------------- explicit bucket argument
UploadEntries == {"upload", "upload_path", "upload_io", "upload_large_file"}

\* A step of the upload in slot g, called with an explicit bucket_id: the
\* call itself or one of its pulls.
ExplicitBucketStep(g) ==
    /\ gen'[g] # gen[g]
    /\ gen'[g].entry \in UploadEntries
    /\ gen'[g].bucket # ""

\* C35: an upload called with an explicit bucket_id leaves the client's
\* selected bucket as it was, at the call and at every pull, on the
\* single-shot path and on the multipart path.
C35_ExplicitBucketKeepsSelection ==
    [][\A g \in Gens : ExplicitBucketStep(g) => bucket_id' = bucket_id]_vars

\* ------------------------------------------------- authentication claims
Restricts(allowed) == allowed.bucketId # "" \/ allowed.bucketName # ""

\* The fields a failed authenticate is said to leave alone.
Session ==
    <<auth_token, api_url, download_url, limited_account, bucket_id, bucket_name,
      _prefix>>

\* C36: an authenticate that succeeds leaves limited_account true exactly
\* when its response restricted the key to a bucket, and the prefix equal
\* to the namePrefix of that response; an authenticate that fails leaves
\* auth_token, api_url, download_url, limited_account, the selected bucket
\* and the prefix as they were.
C36_AuthenticateReflectsLastResponse ==
    [][IF util_out' = NoError
       THEN /\ limited_account' = Restricts(util_in'[2].allowed)
            /\ _prefix' = util_in'[2].allowed.namePrefix
       ELSE Session' = Session]_vars

\* ------------------------------------------------------ list_files claims
\* C37: the prefix list_files sends is the caller's prefix when one is given
\* on an unrestricted account, the empty prefix when the caller gives none
\* and the client has no prefix configured, and on a limited account the
\* client's own name prefix, whatever the caller passes.
C37_ListFilesPrefix ==
    (util_in # <<>> /\ util_in[1] = "list_files")
    => LET given == util_in[2].prefix
           own == util_in[3]
           limited == util_in[4]
       IN /\ (~limited /\ given # <<>>) => util_out.prefix = given
          /\ (~limited /\ given = <<>> /\ own = <<>>) => util_out.prefix = <<>>
          /\ limited => util_out.prefix = own

====
